---- MODULE Spec2Model ----
(***************************************************************************)
(* Verification model of the keybase/search secure-index core:             *)
(*   - libsearch/util.go: pathname <-> document-ID cipher, padding,        *)
(*     SecureIndex codec                                                   *)
(*   - libsearch/secure_index_builder.go: bloom-filter index builder       *)
(*   - client (package client): DirectoryInfo, AddFile/RenameFile/         *)
(*     DeleteFile/SearchWord and the rekey worker updateKeys               *)
(*                                                                         *)
(* Numbers wider than TLC's integers (uint32/uint64 values) are bit        *)
(* vectors: functions from bit position (0 = least significant) to 0/1.    *)
(* Byte strings are sequences over 0..255.  Library primitives (SHA-256,   *)
(* HMAC, PBKDF2, secretbox) are deterministic stand-ins with the library's *)
(* interface: fixed output widths, keyed, authenticated open.              *)
(***************************************************************************)
EXTENDS Integers, Sequences, FiniteSets, TLC

\* ------------------------------------------------------------------------
\* Bounds of the model
\* ------------------------------------------------------------------------
MaxPathLen == 3
MaxKeys == 2
NumKeys == 2
MaxBit == 2
MaxGen == 3
MaxDocLen == 3
MaxFileLen == 1
MaxHostGen == 3
MaxOps == 2
MaxPow2Arg == 33
MaxKeywordLen == 2
MaxTargetLen == 5
MaxTrapdoorCalls == 2
MaxFiles == 2
MaxKeyGens == 2
MaxMaskArg == 9

\* ------------------------------------------------------------------------
\* Program constants
\* ------------------------------------------------------------------------
padPrefixLength == 4
docIDVersionLength == 8
docIDNonceLength == 24
docIDPrefixLength == docIDVersionLength + docIDNonceLength
\* libkbfs.FirstValidKeyGen and libkbfs.PublicKeyGen
FirstValidKeyGen == 1
PublicKeyGen == 0 - 1
\* secretbox.Overhead: length of the Poly1305 tag in front of a sealed box
secretboxOverhead == 16
\* sha256.Size
sha256Size == 32
\* sha512.Size
sha512Size == 64
\* binary.MaxVarintLen64
MaxVarintLen64 == 10

\* ------------------------------------------------------------------------
\* Generic helpers
\* ------------------------------------------------------------------------
Pow2Table == <<1, 2, 4, 8, 16, 32, 64, 128, 256, 512, 1024, 2048, 4096, 8192,
               16384, 32768, 65536, 131072, 262144, 524288, 1048576, 2097152,
               4194304, 8388608, 16777216, 33554432, 67108864, 134217728,
               268435456, 536870912, 1073741824>>
Pow2(n) == Pow2Table[n + 1]

Min(a, b) == IF a < b THEN a ELSE b

Zeros(n) == [i \in 1..n |-> 0] \o <<>>

\* s[from:to] of Go (0-based, half open)
Slice(s, from, to) == SubSeq(s, from + 1, to)

RECURSIVE SeqsUpTo(_, _)
SeqsUpTo(S, n) ==
  IF n = 0 THEN {<<>>}
  ELSE LET shorter == SeqsUpTo(S, n - 1)
       IN shorter \cup {Append(s, x) : s \in {t \in shorter : Len(t) = n - 1}, x \in S}

\* ------------------------------------------------------------------------
\* Machine integers
\* ------------------------------------------------------------------------
\* Bit vectors: sequences of 0/1, least significant bit first (bit i is
\* element i + 1).
BVFromNat(n, w) == [i \in 1..w |-> IF i <= 31 THEN (n \div Pow2(i - 1)) % 2 ELSE 0] \o <<>>
BVFits(bv) == \A i \in 31..Len(bv) : bv[i] = 0

RECURSIVE BVToNatFrom(_, _)
BVToNatFrom(bv, i) == IF i > Min(30, Len(bv)) THEN 0
                      ELSE bv[i] * Pow2(i - 1) + BVToNatFrom(bv, i + 1)
\* the value of bv when it is below 2^30 (callers check BVFits first)
BVToNat(bv) == BVToNatFrom(bv, 1)

BVAnd(a, b) == [i \in 1..Len(a) |-> a[i] * b[i]] \o <<>>
BVOr(a, b) == [i \in 1..Len(a) |-> IF a[i] = 1 \/ b[i] = 1 THEN 1 ELSE 0] \o <<>>
BVShr(a, k) == [i \in 1..Len(a) |-> IF i + k <= Len(a) THEN a[i + k] ELSE 0] \o <<>>
BVIsZero(a) == \A i \in 1..Len(a) : a[i] = 0
\* a + 1 and a - 1 with wrap-around at the vector's width
BVInc(a) == [i \in 1..Len(a) |-> IF \A j \in 1..(i - 1) : a[j] = 1 THEN 1 - a[i] ELSE a[i]] \o <<>>
BVDec(a) == [i \in 1..Len(a) |-> IF \A j \in 1..(i - 1) : a[j] = 0 THEN 1 - a[i] ELSE a[i]] \o <<>>

\* binary.Write(buf, binary.LittleEndian, uint32(n)) for n < 2^24
Uint32LE(n) == <<n % 256, (n \div 256) % 256, (n \div 65536) % 256, 0>>

\* binary.Write(buf, binary.LittleEndian, int64(x)): two's complement, for
\* |x| < 2^23
Int64LE(x) ==
  IF x >= 0
  THEN <<x % 256, (x \div 256) % 256, (x \div 65536) % 256, 0, 0, 0, 0, 0>>
  ELSE LET y == (0 - x) - 1
       IN <<255 - (y % 256), 255 - ((y \div 256) % 256), 255 - ((y \div 65536) % 256),
            255, 255, 255, 255, 255>>

\* binary.Read(buf, binary.LittleEndian, &int64) of 8 bytes.  Bit patterns
\* beyond +-2^23 are reported as the saturated values HugeGen / -HugeGen
\* (they are outside every key vector).
HugeGen == 1073741824
Int64FromLE(b) ==
  IF b[8] < 128
  THEN IF \A i \in 4..8 : b[i] = 0
       THEN b[1] + 256 * b[2] + 65536 * b[3]
       ELSE HugeGen
  ELSE IF \A i \in 4..8 : b[i] = 255
       THEN 0 - (1 + (255 - b[1]) + 256 * (255 - b[2]) + 65536 * (255 - b[3]))
       ELSE 0 - HugeGen

\* ------------------------------------------------------------------------
\* Stand-ins for the cryptographic library primitives
\* ------------------------------------------------------------------------
RECURSIVE MixFrom(_, _, _)
MixFrom(h, bytes, i) ==
  IF i > Len(bytes) \/ h < 0 THEN h
  ELSE MixFrom((h * 131 + bytes[i] + 1) % 1000003, bytes, i + 1)
Mix(h, bytes) == MixFrom(h, bytes, 1)

\* n output bytes expanded from a mixed state
Expand(h, n) == [i \in 1..n |-> ((h + 1) * (2 * i + 1) + i * i + (h \div 7)) % 251] \o <<>>

\* sha256.Sum256
SHA256(msg) == Expand(Mix(17, msg), sha256Size)

\* secretbox key stream and authenticator (XSalsa20 / Poly1305)
KeyStream(key, nonce, n) == Expand(Mix(Mix(29 + key, nonce), <<n % 256>>), n)
BoxTag(key, nonce, ct) == Expand(Mix(Mix(41 + key, nonce), ct), secretboxOverhead)

\* secretbox.Seal(nil, message, &nonce, &key): tag followed by cipher text
secretboxSeal(message, nonce, key) ==
  LET ks == KeyStream(key, nonce, Len(message))
      ct == [i \in 1..Len(message) |-> (message[i] + ks[i]) % 256] \o <<>>
  IN BoxTag(key, nonce, ct) \o ct

\* secretbox.Open(nil, box, &nonce, &key): [ok, message]
secretboxOpen(box, nonce, key) ==
  IF Len(box) < secretboxOverhead THEN [ok |-> FALSE, message |-> <<>>]
  ELSE LET ct == Slice(box, secretboxOverhead, Len(box))
           ks == KeyStream(key, nonce, Len(ct))
       IN IF Slice(box, 0, secretboxOverhead) # BoxTag(key, nonce, ct)
          THEN [ok |-> FALSE, message |-> <<>>]
          ELSE [ok |-> TRUE,
                message |-> [i \in 1..Len(ct) |-> (ct[i] + 256 - ks[i]) % 256] \o <<>>]

\* ------------------------------------------------------------------------
\* base64.RawURLEncoding.  A document ID is a sequence of alphabet indexes
\* 0..63; BadChar stands for any character outside the URL-safe alphabet.
\* ------------------------------------------------------------------------
BadChar == 64

Base64EncodedLen(n) == (n * 8 + 5) \div 6
Base64DecodedLen(n) == (n * 6) \div 8

Base64Encode(bytes) ==
  LET padded == bytes \o <<0, 0>>
  IN [j \in 1..Base64EncodedLen(Len(bytes)) |->
        LET pos == 6 * (j - 1)
            i == pos \div 8
        IN ((padded[i + 1] * 256 + padded[i + 2]) \div Pow2(10 - (pos % 8))) % 64] \o <<>>

\* [err, bytes]; the returned slice has capacity = length = DecodedLen
Base64Decode(s) ==
  IF (\E j \in 1..Len(s) : s[j] = BadChar) \/ Len(s) % 4 = 1
  THEN [err |-> TRUE, bytes |-> <<>>]
  ELSE LET padded == s \o <<0, 0>>
       IN [err |-> FALSE,
           bytes |-> [k \in 1..Base64DecodedLen(Len(s)) |->
              LET pos == 8 * (k - 1)
                  j == pos \div 6
              IN ((padded[j + 1] * 64 + padded[j + 2]) \div Pow2(4 - (pos % 6))) % 256] \o <<>>]

\* ------------------------------------------------------------------------
\* libsearch/util.go: padding and the pathname / document-ID cipher
\* ------------------------------------------------------------------------
Ok(v) == [status |-> "ok", value |-> v]
Err(kind) == [status |-> "error", value |-> kind]
Panic(kind) == [status |-> "panic", value |-> kind]

\* nextPowerOfTwo without the step over a power of two
nextPowerOfTwo_NoBump(n) ==
  LET n1 == BVDec(n)
      n2 == BVOr(n1, BVShr(n1, 1))
      n3 == BVOr(n2, BVShr(n2, 2))
      n4 == BVOr(n3, BVShr(n3, 4))
      n5 == BVOr(n4, BVShr(n4, 8))
      n6 == BVOr(n5, BVShr(n5, 16))
  IN BVInc(n6)

\* nextPowerOfTwo(n uint32) uint32, on 32-bit vectors
nextPowerOfTwo(n) ==
  LET n0 == IF BVIsZero(BVAnd(n, BVDec(n))) THEN BVInc(n) ELSE n
      n1 == BVDec(n0)
      n2 == BVOr(n1, BVShr(n1, 1))
      n3 == BVOr(n2, BVShr(n2, 2))
      n4 == BVOr(n3, BVShr(n3, 4))
      n5 == BVOr(n4, BVShr(n4, 8))
      n6 == BVOr(n5, BVShr(n5, 16))
  IN BVInc(n6)

\* padPathname: the buffer is allocated with capacity padPrefixLength +
\* paddedLen, then receives the length prefix and the pathname; Bytes()
\* returns what was written.
padPathname(pathname) ==
  LET origLen == Len(pathname)
      paddedLen == nextPowerOfTwo(BVFromNat(origLen, 32))
  IN Ok(Uint32LE(origLen) \o pathname)

\* depadPathname that forgets to skip the length prefix
depadPathname_KeepPrefix(paddedPathname) ==
  IF Len(paddedPathname) < padPrefixLength THEN Err("unexpected EOF")
  ELSE LET b == paddedPathname
           origLen == b[1] + 256 * b[2] + 65536 * b[3]
       IN IF padPrefixLength + origLen > Len(paddedPathname)
          THEN Err("invalid padded padPathname")
          ELSE Ok(Slice(paddedPathname, 0, origLen))

\* depadPathname
depadPathname(paddedPathname) ==
  IF Len(paddedPathname) < padPrefixLength THEN Err("unexpected EOF")
  ELSE LET b == paddedPathname
           rest == Slice(paddedPathname, padPrefixLength, Len(paddedPathname))
       IN IF b[4] = 0
          THEN LET origLen == b[1] + 256 * b[2] + 65536 * b[3]
               IN IF padPrefixLength + origLen > Len(paddedPathname)
                  THEN Err("invalid padded padPathname")
                  ELSE Ok(Slice(rest, 0, origLen))
          ELSE \* uint32(padPrefixLength + origLen) wraps for origLen >= 2^32 - 4
               IF b[4] = 255 /\ b[3] = 255 /\ b[2] = 255 /\ b[1] >= 256 - padPrefixLength
               THEN Ok(rest)          \* buf.Next returns what is left
               ELSE Err("invalid padded padPathname")

\* PathnameToDocID(keyGen, pathname, key)
PathnameToDocID(keyGen, pathname, key) ==
  LET nonce == Slice(SHA256(pathname), 0, docIDNonceLength)
      padded == padPathname(pathname)
  IN IF padded.status # "ok" THEN padded
     ELSE LET sealedBox == secretboxSeal(padded.value, nonce, key)
              versionBuf == Int64LE(keyGen)
          IN Ok(Base64Encode(versionBuf \o nonce \o sealedBox))

\* DocIDToPathname that does not look at the ok result of secretbox.Open
DocIDToPathname_IgnoreOk(docID, keys) ==
  LET dec == Base64Decode(docID)
      docIDRaw == dec.bytes
  IN IF dec.err THEN Err("corrupt input")
     ELSE IF Len(docIDRaw) < docIDVersionLength THEN Panic("slice bounds out of range")
     ELSE LET keyGen == Int64FromLE(Slice(docIDRaw, 0, docIDVersionLength))
              idx == keyGen - FirstValidKeyGen
          IN IF idx < 0 \/ idx >= Len(keys) THEN Panic("index out of range")
             ELSE IF Len(docIDRaw) < docIDPrefixLength THEN Panic("slice bounds out of range")
             ELSE LET key == keys[idx + 1]
                      nonce == Slice(docIDRaw, docIDVersionLength, docIDPrefixLength)
                      opened == secretboxOpen(Slice(docIDRaw, docIDPrefixLength, Len(docIDRaw)),
                                              nonce, key)
                  IN depadPathname(opened.message)

\* DocIDToPathname(docID, keys)
DocIDToPathname(docID, keys) ==
  LET dec == Base64Decode(docID)
      docIDRaw == dec.bytes
  IN IF dec.err THEN Err("corrupt input")
     ELSE IF Len(docIDRaw) < docIDVersionLength THEN Panic("slice bounds out of range")
     ELSE LET keyGen == Int64FromLE(Slice(docIDRaw, 0, docIDVersionLength))
              idx == keyGen - FirstValidKeyGen
          IN IF idx < 0 \/ idx >= Len(keys) THEN Panic("index out of range")
             ELSE IF Len(docIDRaw) < docIDPrefixLength THEN Panic("slice bounds out of range")
             ELSE LET key == keys[idx + 1]
                      nonce == Slice(docIDRaw, docIDVersionLength, docIDPrefixLength)
                      opened == secretboxOpen(Slice(docIDRaw, docIDPrefixLength, Len(docIDRaw)),
                                              nonce, key)
                  IN IF ~opened.ok THEN Err("invalid document ID")
                     ELSE depadPathname(opened.message)

\* GetKeyGenFromDocID(docID)
GetKeyGenFromDocID(docID) ==
  LET dec == Base64Decode(docID)
      docIDRaw == dec.bytes
  IN IF dec.err THEN Err("corrupt input")
     ELSE IF Len(docIDRaw) < docIDVersionLength THEN Panic("slice bounds out of range")
     ELSE Ok(Int64FromLE(Slice(docIDRaw, 0, docIDVersionLength)))

\* ------------------------------------------------------------------------
\* encoding/binary varints on 64-bit vectors
\* ------------------------------------------------------------------------
U64(n) == BVFromNat(n, 64)
U64Bit(k) == [i \in 1..64 |-> IF i = k + 1 THEN 1 ELSE 0] \o <<>>
U64Max == [i \in 1..64 |-> 1] \o <<>>

Low7(x) == x[1] + 2 * x[2] + 4 * x[3] + 8 * x[4] + 16 * x[5] + 32 * x[6] + 64 * x[7]
Below128(x) == \A i \in 8..64 : x[i] = 0

\* the bytes binary.PutUvarint(buf, x) writes at the start of buf
RECURSIVE PutUvarint(_)
PutUvarint(x) ==
  IF Below128(x) THEN <<Low7(x)>>
  ELSE <<Low7(x) + 128>> \o PutUvarint(BVShr(x, 7))

\* the bytes binary.PutVarint(buf, x) writes, for an int x: zig-zag, then
\* PutUvarint
PutVarint(x) == PutUvarint(IF x >= 0 THEN U64(2 * x) ELSE U64(2 * (0 - x) - 1))

\* uint64(b) << s
ShlByte(b, s) ==
  [k \in 1..64 |-> IF k - 1 >= s /\ k - 1 - s < 8 THEN (b \div Pow2(k - 1 - s)) % 2 ELSE 0] \o <<>>

\* binary.Uvarint(buf): [v, n]
RECURSIVE UvarintFrom(_, _, _, _)
UvarintFrom(buf, i, x, sh) ==
  IF i > Len(buf) THEN [v |-> U64(0), n |-> 0]
  ELSE IF i - 1 = MaxVarintLen64 THEN [v |-> U64(0), n |-> 0 - i]
  ELSE IF buf[i] < 128
       THEN IF i - 1 = MaxVarintLen64 - 1 /\ buf[i] > 1
            THEN [v |-> U64(0), n |-> 0 - i]
            ELSE [v |-> BVOr(x, ShlByte(buf[i], sh)), n |-> i]
       ELSE UvarintFrom(buf, i + 1, BVOr(x, ShlByte(buf[i] % 128, sh)), sh + 7)
Uvarint(buf) == UvarintFrom(buf, 1, U64(0), 0)

\* binary.Varint(buf): [v, n] with v an integer (saturated at +-HugeGen)
Varint(buf) ==
  LET u == Uvarint(buf)
      half == BVShr(u.v, 1)
      mag == IF BVFits(half) THEN BVToNat(half) ELSE HugeGen
  IN [v |-> IF u.v[1] = 1 THEN 0 - mag - 1 ELSE mag, n |-> u.n]

\* readInt(input)
readInt(input) ==
  LET r == Varint(input)
  IN IF r.n <= 0 THEN Err("cannot read the int") ELSE Ok(r.v)

\* ------------------------------------------------------------------------
\* bitarray.Marshal / bitarray.Unmarshal of a sparse bit array, held as the
\* set of its set positions: a count byte, then the positions in increasing
\* order
\* ------------------------------------------------------------------------
RECURSIVE SortedSeq(_)
SortedSeq(S) ==
  IF S = {} THEN <<>>
  ELSE LET lo == CHOOSE x \in S : \A y \in S : x <= y
       IN <<lo>> \o SortedSeq(S \ {lo})

\* a nil bitarray.BitArray
NilBitArray == {0 - 1}

bitarrayMarshal(bf) == <<Cardinality(bf)>> \o SortedSeq(bf)

bitarrayUnmarshal(bytes) ==
  IF Len(bytes) = 0 \/ Len(bytes) # 1 + bytes[1]
     \/ (\E i \in 2..(Len(bytes) - 1) : bytes[i] >= bytes[i + 1])
  THEN Err("bitarray: cannot decode")
  ELSE Ok({bytes[i] : i \in 2..Len(bytes)})

\* ------------------------------------------------------------------------
\* libsearch/secure_index.go: the SecureIndex codec
\* ------------------------------------------------------------------------
\* si.Hash().Size()
HashSize(h) == IF h = "sha256" THEN sha256Size ELSE sha512Size

\* copy(dst[at:], src)
Overlay(dst, at, src) ==
  [i \in 1..Len(dst) |-> IF i > at /\ i - at <= Len(src) THEN src[i - at] ELSE dst[i]] \o <<>>

\* MarshalBinary with 8-byte header slots: a long nonce runs into the size slot
MarshalBinary_Slots8(si) ==
  LET bfBytes == bitarrayMarshal(si.BloomFilter)
      r0 == Zeros(24 + Len(bfBytes))
      r1 == Overlay(r0, 0, PutVarint(HashSize(si.Hash)))
      r2 == Overlay(r1, 8, PutUvarint(si.Nonce))
      r3 == Overlay(r2, 16, PutUvarint(si.Size))
  IN Ok(Overlay(r3, 24, bfBytes) \o Zeros(6))

\* (si *SecureIndex) MarshalBinary()
MarshalBinary(si) ==
  LET bfBytes == bitarrayMarshal(si.BloomFilter)
      length == 3 * MaxVarintLen64 + Len(bfBytes)
      r0 == Zeros(length)
      r1 == Overlay(r0, 0, PutVarint(HashSize(si.Hash)))
      r2 == Overlay(r1, MaxVarintLen64, PutUvarint(si.Nonce))
      r3 == Overlay(r2, 2 * MaxVarintLen64, PutUvarint(si.Size))
  IN Ok(Overlay(r3, 3 * MaxVarintLen64, bfBytes))

\* UnmarshalBinary that falls back to SHA-256 for an unknown hash size
UnmarshalBinary_DefaultHash(si, input) ==
  IF Len(input) < 3 * MaxVarintLen64
  THEN [err |-> "insufficient binary length", si |-> si]
  ELSE LET hashLen == readInt(Slice(input, 0, MaxVarintLen64))
       IN IF hashLen.status # "ok" THEN [err |-> hashLen.value, si |-> si]
          ELSE LET bf == bitarrayUnmarshal(Slice(input, 3 * MaxVarintLen64, Len(input)))
                   si1 == [si EXCEPT
                             !.Hash = IF hashLen.value = sha512Size THEN "sha512" ELSE "sha256",
                             !.Nonce = Uvarint(Slice(input, MaxVarintLen64, 2 * MaxVarintLen64)).v,
                             !.Size = Uvarint(Slice(input, 2 * MaxVarintLen64, 3 * MaxVarintLen64)).v]
               IN IF bf.status # "ok"
                  THEN [err |-> bf.value, si |-> [si1 EXCEPT !.BloomFilter = NilBitArray]]
                  ELSE [err |-> "", si |-> [si1 EXCEPT !.BloomFilter = bf.value]]

\* (si *SecureIndex) UnmarshalBinary(input): [err, si] with si the receiver
\* after the call
UnmarshalBinary(si, input) ==
  IF Len(input) < 3 * MaxVarintLen64
  THEN [err |-> "insufficient binary length", si |-> si]
  ELSE LET hashLen == readInt(Slice(input, 0, MaxVarintLen64))
       IN IF hashLen.status # "ok" THEN [err |-> hashLen.value, si |-> si]
          ELSE IF hashLen.value \notin {sha256Size, sha512Size}
          THEN [err |-> "invalid hash function length", si |-> si]
          ELSE LET bf == bitarrayUnmarshal(Slice(input, 3 * MaxVarintLen64, Len(input)))
                   si1 == [si EXCEPT
                             !.Hash = IF hashLen.value = sha256Size THEN "sha256" ELSE "sha512",
                             !.Nonce = Uvarint(Slice(input, MaxVarintLen64, 2 * MaxVarintLen64)).v,
                             !.Size = Uvarint(Slice(input, 2 * MaxVarintLen64, 3 * MaxVarintLen64)).v]
               IN IF bf.status # "ok"
                  \* bitarray.Unmarshal returned (nil, err), assigned to the field
                  THEN [err |-> bf.value, si |-> [si1 EXCEPT !.BloomFilter = NilBitArray]]
                  ELSE [err |-> "", si |-> [si1 EXCEPT !.BloomFilter = bf.value]]

\* ------------------------------------------------------------------------
\* libsearch/util.go and libsearch/secure_index_builder.go: keyword
\* normalization, trapdoors and the bloom-filter builder
\* ------------------------------------------------------------------------
\* Document bytes.  Space is the whitespace byte; LongRun stands for a run of
\* bufio.MaxScanTokenSize letter bytes, so a token that contains it does not
\* fit the scanner's buffer.
Space == 32
LongRun == 1000

\* unicode.IsLetter, unicode.IsDigit, unicode.ToLower on the modelled runes:
\* ASCII, U+00C9 / U+00E9 (E acute, upper and lower case), U+82DF (a Han
\* letter, no case), U+0665 (Arabic-Indic digit five, category Nd); every
\* other rune, such as U+2167 (Roman numeral eight, category Nl) and U+FFFD
\* (what ranging over a string yields for invalid UTF-8), is neither.  A
\* LongRun is a run of lower-case letters.
IsLetter(c) == c \in (65..90) \cup (97..122) \cup {201, 233, 33503, LongRun}
IsDigit(c) == c \in (48..57) \cup {1637}
ToLower(c) == IF c \in 65..90 THEN c + 32 ELSE IF c = 201 THEN 233 ELSE c

\* NormalizeKeyword that keeps letters only
RECURSIVE NormalizeKeyword_LettersOnly(_)
NormalizeKeyword_LettersOnly(keyword) ==
  IF keyword = <<>> THEN <<>>
  ELSE LET c == Head(keyword)
       IN (IF IsLetter(c) THEN <<ToLower(c)>> ELSE <<>>)
          \o NormalizeKeyword_LettersOnly(Tail(keyword))

\* NormalizeKeyword(keyword)
RECURSIVE NormalizeKeyword(_)
NormalizeKeyword(keyword) ==
  IF keyword = <<>> THEN <<>>
  ELSE LET c == Head(keyword)
       IN (IF IsDigit(c) \/ IsLetter(c) THEN <<ToLower(c)>> ELSE <<>>)
          \o NormalizeKeyword(Tail(keyword))

\* pbkdf2.Key(masterSecret, salt, 4096, 32, sha256.New) and hmac.New(h, key)
\* followed by Write(msg), Sum(nil)
PBKDF2(masterSecret, salt) == Expand(Mix(Mix(53, masterSecret), salt), 32)
HMAC(h, key, msg) == Expand(Mix(Mix(71, key), msg), HashSize(h))

\* CreateSecureIndexBuilder(h, masterSecret, salts, size)
CreateSecureIndexBuilder(h, masterSecret, salts, size) ==
  [keys |-> [i \in 1..Len(salts) |-> PBKDF2(masterSecret, salts[i])] \o <<>>,
   hash |-> h,
   size |-> size]

\* sib.trapdoorFunc(word)
trapdoorFunc(sib, word) ==
  [i \in 1..Len(sib.keys) |-> HMAC(sib.hash, sib.keys[i], word)] \o <<>>

\* sib.ComputeTrapdoors(word)
ComputeTrapdoors(sib, word) == trapdoorFunc(sib, NormalizeKeyword(word))

\* big.NewInt(int64(nonce)).Bytes(): the magnitude of the nonce read as a
\* signed 64-bit number, big-endian, without leading zero bytes
BVByteAt(bv, k) ==
  bv[8 * k + 1] + 2 * bv[8 * k + 2] + 4 * bv[8 * k + 3] + 8 * bv[8 * k + 4]
  + 16 * bv[8 * k + 5] + 32 * bv[8 * k + 6] + 64 * bv[8 * k + 7] + 128 * bv[8 * k + 8]

RECURSIVE StripLeadingZeros(_)
StripLeadingZeros(bytes) ==
  IF bytes # <<>> /\ Head(bytes) = 0 THEN StripLeadingZeros(Tail(bytes)) ELSE bytes

NonceBytes(nonce) ==
  LET mag == IF nonce[64] = 1 THEN BVInc([i \in 1..64 |-> 1 - nonce[i]] \o <<>>) ELSE nonce
  IN StripLeadingZeros([k \in 1..8 |-> BVByteAt(mag, 8 - k)] \o <<>>)

\* x % m for a 64-bit vector x and a number 0 < m < 2^14, taken over the
\* four 16-bit quarters of x from the most significant one down
BVQuarter(x, k) == BVToNat(SubSeq(x, 16 * k + 1, 16 * k + 16))
BVMod(x, m) ==
  LET p == 65536 % m
      r3 == BVQuarter(x, 3) % m
      r2 == (r3 * p + BVQuarter(x, 2)) % m
      r1 == (r2 * p + BVQuarter(x, 1)) % m
  IN (r1 * p + BVQuarter(x, 0)) % m

\* the bloom-filter position of one trapdoor: the HMAC of the nonce bytes
\* under the trapdoor, read by binary.Uvarint, modulo the size
Codeword(h, trapdoor, nonce) == Uvarint(HMAC(h, trapdoor, NonceBytes(nonce))).v
BitPosition(sib, trapdoor, nonce) ==
  BVMod(Codeword(sib.hash, trapdoor, nonce), BVToNat(sib.size))

\* the reduction of one HMAC output to a bit position:
\* binary.Uvarint(mac.Sum(nil)) modulo the size
PositionOf(macSum, size) == BVMod(Uvarint(macSum).v, BVToNat(size))

\* bufio.ScanWords over the document bytes: the whitespace-delimited tokens
RECURSIVE ScanWordsFrom(_, _, _)
ScanWordsFrom(doc, i, cur) ==
  IF i > Len(doc) THEN (IF cur = <<>> THEN <<>> ELSE <<cur>>)
  ELSE IF doc[i] = Space
       THEN (IF cur = <<>> THEN <<>> ELSE <<cur>>) \o ScanWordsFrom(doc, i + 1, <<>>)
       ELSE ScanWordsFrom(doc, i + 1, Append(cur, doc[i]))
ScanWords(doc) == ScanWordsFrom(doc, 1, <<>>)

TooLong(token) == \E i \in 1..Len(token) : token[i] = LongRun

\* the tokens scanner.Scan() delivers before it returns false: all tokens
\* when the read succeeds, the tokens in front of the first token that
\* exceeds the buffer otherwise
RECURSIVE Delivered(_)
Delivered(tokens) ==
  IF tokens = <<>> \/ TooLong(Head(tokens)) THEN <<>>
  ELSE <<Head(tokens)>> \o Delivered(Tail(tokens))

\* buildBloomFilter(nonce, document): [bf, numUniqWords, crash]
RECURSIVE buildBloomFilterFrom(_, _, _, _, _)
buildBloomFilterFrom(sib, nonce, tokens, words, bf) ==
  IF tokens = <<>> THEN [bf |-> bf, numUniqWords |-> Cardinality(words), crash |-> FALSE]
  ELSE LET word == NormalizeKeyword(Head(tokens))
       IN IF word \in words
          THEN buildBloomFilterFrom(sib, nonce, Tail(tokens), words, bf)
          ELSE IF BVIsZero(sib.size) /\ Len(sib.keys) > 0
          THEN [bf |-> bf, numUniqWords |-> Cardinality(words), crash |-> TRUE]
          ELSE LET trapdoors == trapdoorFunc(sib, word)
               IN buildBloomFilterFrom(sib, nonce, Tail(tokens), words \cup {word},
                    bf \cup {BitPosition(sib, trapdoors[i], nonce) : i \in 1..Len(trapdoors)})
buildBloomFilter(sib, nonce, document) ==
  buildBloomFilterFrom(sib, nonce, Delivered(ScanWords(document)), {}, {})

\* one halving step of GetNumLeadingZeroes
ClzStep(st, k) ==
  LET y == BVShr(st.x, k)
  IN IF ~BVIsZero(y) THEN [x |-> y, n |-> st.n - k] ELSE st

\* GetNumLeadingZeroes whose last step takes off one zero too few
GetNumLeadingZeroes_OffByOne(num) ==
  LET s32 == ClzStep([x |-> num, n |-> 64], 32)
      s16 == ClzStep(s32, 16)
      s8 == ClzStep(s16, 8)
      s4 == ClzStep(s8, 4)
      s2 == ClzStep(s4, 2)
      y == BVShr(s2.x, 1)
  IN IF ~BVIsZero(y) THEN s2.n - 1 ELSE s2.n - BVToNat(s2.x)

\* GetNumLeadingZeroes(num)
GetNumLeadingZeroes(num) ==
  LET s32 == ClzStep([x |-> num, n |-> 64], 32)
      s16 == ClzStep(s32, 16)
      s8 == ClzStep(s16, 8)
      s4 == ClzStep(s8, 4)
      s2 == ClzStep(s4, 2)
      y == BVShr(s2.x, 1)
  IN IF ~BVIsZero(y) THEN s2.n - 2 ELSE s2.n - BVToNat(s2.x)

\* BuildMaskWithLeadingZeroes that shifts one bit too far
BuildMaskWithLeadingZeroes_OneMore(numZeroes) == BVShr(U64Max, numZeroes + 1)

\* BuildMaskWithLeadingZeroes(numZeroes)
BuildMaskWithLeadingZeroes(numZeroes) == BVShr(U64Max, numZeroes)

\* a < b on 64-bit vectors
BVLess(a, b) ==
  \E i \in 1..Len(a) : a[i] < b[i] /\ \A j \in (i + 1)..Len(a) : a[j] = b[j]

\* RandomNumberGenerationFactor = 1.3: int64(float64(i) * 1.3)
RandomNumberGenerationFactor10 == 13
BatchLen(i) == (i * RandomNumberGenerationFactor10) \div 10

\* the number of blinding iterations BuildSecureIndex asks for
BlindIterations(sib, fileLen, numUniqWords) == (fileLen - numUniqWords) * Len(sib.keys)

\* the sets of bits blindBloomFilter can add in numIterations accepted draws
BlindOutcomes(sib, numIterations) ==
  IF numIterations <= 0 THEN {{}}
  ELSE {S \in SUBSET (0..(BVToNat(sib.size) - 1)) : S # {} /\ Cardinality(S) <= numIterations}

\* SearchSecureIndex(si, trapdoors): every trapdoor's bit is set
SearchSecureIndex(si, trapdoors) ==
  \A i \in 1..Len(trapdoors) :
    BVMod(Codeword(si.Hash, trapdoors[i], si.Nonce), BVToNat(si.Size)) \in si.BloomFilter

\* ------------------------------------------------------------------------
\* packages indexer, index, searcher and server: the file server that numbers
\* its documents, and the builder and codec its indexes go through
\* ------------------------------------------------------------------------
\* string(docID): the UTF-8 bytes of the rune docID
RuneBytes(r) ==
  IF r < 0 \/ r > 1114111 \/ r \in 55296..57343 THEN <<239, 191, 189>>
  ELSE IF r < 128 THEN <<r>>
  ELSE IF r < 2048 THEN <<192 + (r \div 64), 128 + (r % 64)>>
  ELSE IF r < 65536 THEN <<224 + (r \div 4096), 128 + ((r \div 64) % 64), 128 + (r % 64)>>
  ELSE <<240 + (r \div 262144), 128 + ((r \div 4096) % 64), 128 + ((r \div 64) % 64), 128 + (r % 64)>>

\* the bloom-filter position of one trapdoor in the index of document docID
indexerBitPosition(h, size, trapdoor, docID) ==
  BVMod(Uvarint(HMAC(h, trapdoor, RuneBytes(docID))).v, BVToNat(size))

\* indexer: (sIB *SecureIndexBuilder) buildBloomFilter(docID, document),
\* [bf, numUniqWords]
indexerBuildBloomFilter(sIB, docID, document) ==
  LET tokens == Delivered(ScanWords(document))
      words == {tokens[k] : k \in 1..Len(tokens)}
  IN [bf |-> UNION {{indexerBitPosition(sIB.hash, sIB.size, trapdoorFunc(sIB, word)[i], docID) :
                       i \in 1..Len(sIB.keys)} : word \in words},
      numUniqWords |-> Cardinality(words)]

\* indexer: BuildSecureIndex(docID, document, fileLen), with the bits the
\* blinding has added
indexerBuildSecureIndex(sIB, docID, document, blinded) ==
  [BloomFilter |-> indexerBuildBloomFilter(sIB, docID, document).bf \cup blinded,
   DocID |-> docID, Size |-> sIB.size, Hash |-> sIB.hash]

\* index: (si *SecureIndex) Marshal()
indexMarshal(si) ==
  LET bfBytes == bitarrayMarshal(si.BloomFilter)
      r0 == Zeros(24 + Len(bfBytes))
      r1 == Overlay(r0, 0, PutVarint(si.DocID))
      r2 == Overlay(r1, 8, PutVarint(HashSize(si.Hash)))
      r3 == Overlay(r2, 16, PutUvarint(si.Size))
  IN Overlay(r3, 24, bfBytes)

\* index: Unmarshal(input)
indexUnmarshal(input) ==
  IF Len(input) < 24
  THEN [BloomFilter |-> NilBitArray, DocID |-> 0, Size |-> U64(0), Hash |-> "nil"]
  ELSE LET hashLen == Varint(Slice(input, 8, 16)).v
           bf == bitarrayUnmarshal(Slice(input, 24, Len(input)))
       IN [BloomFilter |-> IF bf.status = "ok" THEN bf.value ELSE NilBitArray,
           DocID |-> Varint(Slice(input, 0, 8)).v,
           Size |-> Uvarint(Slice(input, 16, 24)).v,
           Hash |-> IF hashLen = sha256Size THEN "sha256"
                    ELSE IF hashLen = sha512Size THEN "sha512" ELSE "nil"]

\* searcher: SearchSecureIndex(si, trapdoors)
searcherSearchSecureIndex(si, trapdoors) ==
  IF trapdoors # <<>> /\ si.Hash = "nil" THEN Panic("nil hash function")
  ELSE IF trapdoors # <<>> /\ BVIsZero(si.Size) THEN Panic("integer divide by zero")
  ELSE Ok(\A i \in 1..Len(trapdoors) :
            indexerBitPosition(si.Hash, si.Size, trapdoors[i], si.DocID) \in si.BloomFilter)

\* ------------------------------------------------------------------------
\* client: relPathStrict(basepath, targpath), the relative-path check in
\* front of AddFile, RenameFile and DeleteFile.  A path is a byte string with
\* '/' between its components.
\* ------------------------------------------------------------------------
Slash == 47
Dot == 46
DotDot == <<Dot, Dot>>

\* the components of a path: the runs between slashes, without the empty
\* ones and without "."
RECURSIVE SplitFrom(_, _, _)
SplitFrom(path, i, cur) ==
  LET done == IF cur = <<>> \/ cur = <<Dot>> THEN <<>> ELSE <<cur>>
  IN IF i > Len(path) THEN done
     ELSE IF path[i] = Slash THEN done \o SplitFrom(path, i + 1, <<>>)
     ELSE SplitFrom(path, i + 1, Append(cur, path[i]))
Split(path) == SplitFrom(path, 1, <<>>)

IsAbs(path) == path # <<>> /\ path[1] = Slash

\* every ".." resolved against the component in front of it; in front of
\* the root it goes away, in front of a relative path it stays
RECURSIVE ResolveFrom(_, _, _, _)
ResolveFrom(comps, i, stack, rooted) ==
  IF i > Len(comps) THEN stack
  ELSE IF comps[i] # DotDot THEN ResolveFrom(comps, i + 1, Append(stack, comps[i]), rooted)
  ELSE IF stack # <<>> /\ stack[Len(stack)] # DotDot
       THEN ResolveFrom(comps, i + 1, SubSeq(stack, 1, Len(stack) - 1), rooted)
  ELSE IF rooted THEN ResolveFrom(comps, i + 1, stack, rooted)
  ELSE ResolveFrom(comps, i + 1, Append(stack, DotDot), rooted)
Clean(path) == ResolveFrom(Split(path), 1, <<>>, IsAbs(path))

RECURSIVE JoinComps(_)
JoinComps(comps) ==
  IF comps = <<>> THEN <<>>
  ELSE IF Len(comps) = 1 THEN comps[1]
  ELSE comps[1] \o <<Slash>> \o JoinComps(Tail(comps))

\* relPathStrict that compares the two paths as strings
relPathStrict_StringPrefix(basepath, targpath) ==
  LET b == JoinComps(Clean(basepath))
      t == JoinComps(Clean(targpath))
  IN IF IsAbs(basepath) = IsAbs(targpath) /\ Len(t) > Len(b) /\ SubSeq(t, 1, Len(b)) = b
     THEN Ok(LET rest == SubSeq(t, Len(b) + 1, Len(t))
             IN IF rest[1] = Slash THEN Tail(rest) ELSE rest)
     ELSE Err("target path not within base path")

\* relPathStrict(basepath, targpath)
relPathStrict(basepath, targpath) ==
  LET b == Clean(basepath)
      t == Clean(targpath)
  IN IF /\ IsAbs(basepath) = IsAbs(targpath)
        /\ Len(t) > Len(b)
        /\ SubSeq(t, 1, Len(b)) = b
        /\ (b = <<>> \/ b[1] # DotDot)
        /\ t[Len(b) + 1] # DotDot
     THEN Ok(JoinComps(SubSeq(t, Len(b) + 1, Len(t))))
     ELSE Err("target path not within base path")

\* ------------------------------------------------------------------------
\* State
\* ------------------------------------------------------------------------
VARIABLES
  \* document-ID cipher
  dPath,      \* pathname last given to PathnameToDocID / padPathname
  dGen,       \* key generation last given to PathnameToDocID
  dKey,       \* key last given to PathnameToDocID
  dDocID,     \* the document ID at hand
  dWhole,     \* dDocID is exactly PathnameToDocID(dGen, dPath, dKey)
  dKeys,      \* key vector last given to DocIDToPathname
  dOut        \* [op, res] of the last call

VARIABLES
  \* SecureIndex codec
  cIdx,       \* the SecureIndex given to MarshalBinary
  cBytes,     \* the byte string at hand
  cWhole,     \* cBytes is exactly the output of MarshalBinary(cIdx)
  cRecv,      \* the SecureIndex that receives UnmarshalBinary
  cOut        \* [op, err] of the last call

VARIABLES
  \* one BuildSecureIndex call
  bDoc,       \* the document's bytes
  bFileLen,   \* the fileLen argument
  bSib,       \* the SecureIndexBuilder
  bMask,      \* blindBloomFilter's mask
  bPc,        \* position: "idle", "start", "blind", "done"
  bNonce,     \* the nonce drawn by RandUint64
  bBf,        \* the bloom filter: the set of bits set so far
  bI,         \* blindBloomFilter's i: accepted draws still wanted
  bBatch,     \* random numbers of the current batch not yet looked at
  bBlinds,    \* SetBit calls blindBloomFilter has made
  bOut        \* the call's result once bPc = "done"

VARIABLES
  \* one client with one directory, its rekey worker and the search server
  hostKeyGen,    \* the key generation the host file system reports
  keyGen,        \* dirInfo.keyGen
  indexers,      \* dirInfo.indexers
  pathnameKeys,  \* dirInfo.pathnameKeys
  worker,        \* periodicKeyGenCheck / updateKeys: position and locals
  op,            \* the client operation in progress: position and locals
  opCount,       \* client operations started so far
  lastResult,    \* [op, res] of the last finished client operation
  serverIndexes, \* the server's stored indexes: records [DocID, SecureIndex]
  sentDocIDs     \* every document ID sent to the server, with the pathname
                 \* and the key index it was sealed with

VARIABLES
  \* single calls of the package's functions
  uCall,      \* the function called and its arguments
  uOut,       \* [op, res] of the call
  uSibs,      \* the builders CreateSecureIndexBuilder has returned
  uTraps      \* the calls of ComputeTrapdoors made: [sib, trapdoors]

VARIABLES
  \* the file server of package server and the client that fills it
  sFiles,       \* the contents of the files added, file i at position i + 1
  sIndexFiles,  \* the "<docID>.index" files written: [DocID, bytes]
  sOut          \* [op, res] of the last SearchWord

docVars == <<dPath, dGen, dKey, dDocID, dWhole, dKeys, dOut>>
codecVars == <<cIdx, cBytes, cWhole, cRecv, cOut>>
buildVars == <<bDoc, bFileLen, bSib, bMask, bPc, bNonce, bBf, bI, bBatch, bBlinds, bOut>>
dirVars == <<keyGen, indexers, pathnameKeys>>
clientVars == <<hostKeyGen, dirVars, worker, op, opCount, lastResult, serverIndexes, sentDocIDs>>
utilVars == <<uCall, uOut, uSibs, uTraps>>
serverVars == <<sFiles, sIndexFiles, sOut>>
vars == <<docVars, codecVars, buildVars, clientVars, utilVars, serverVars>>

\* ------------------------------------------------------------------------
\* Input sets and resting states
\* ------------------------------------------------------------------------
PathBytes == {47, 97}
Pathnames == SeqsUpTo(PathBytes, MaxPathLen)
KeyIds == 1..NumKeys
KeyVectors == SeqsUpTo(KeyIds, MaxKeys)
Gens == {PublicKeyGen} \cup (0..MaxGen)

NoCall == [op |-> "none", res |-> Ok(<<>>)]

\* new(SecureIndex)
ZeroIndex == [Hash |-> "nil", Nonce |-> U64(0), Size |-> U64(0), BloomFilter |-> NilBitArray]

\* the builder of the build harness: CreateSecureIndexBuilder(sha256.New,
\* masterSecret, salts, size) with a fixed master secret and two salts
BuildMasterSecret == <<116, 101, 115, 116>>
BuildSalts == <<<<1, 2, 3, 4, 5, 6, 7, 8>>, <<8, 7, 6, 5, 4, 3, 2, 1>>>>
BuildSib(size) == CreateSecureIndexBuilder("sha256", BuildMasterSecret, BuildSalts, size)

\* the client's directory: lenMS, tlfInfo.Salts, tlfInfo.Size
lenMS == 64
ClientSalts == BuildSalts
ClientSize == U64(5)

NoGen == 0
NoKey == 0 - 1
NoIndex == 0 - 1
IdleOp ==
  [name |-> "idle", pc |-> "idle", path |-> <<>>, curr |-> <<>>, word |-> <<>>,
   keyIndex |-> NoIndex, gen |-> NoGen, key |-> NoKey, orig |-> <<>>,
   keyGens |-> <<>>, trapdoors |-> <<>>, documents |-> <<>>]
IdleWorker == [pc |-> "sleep", newKeyGen |-> 0, currKeyGen |-> 0, gen |-> 0, failed |-> FALSE]

DocIdle ==
  /\ dPath = <<>>
  /\ dGen = FirstValidKeyGen
  /\ dKey = 1
  /\ dDocID = <<>>
  /\ dWhole = FALSE
  /\ dKeys = <<>>
  /\ dOut = NoCall

CodecIdle ==
  /\ cIdx = ZeroIndex
  /\ cBytes = <<>>
  /\ cWhole = FALSE
  /\ cRecv = ZeroIndex
  /\ cOut = [op |-> "none", err |-> ""]

BuildIdle ==
  /\ bDoc = <<>>
  /\ bFileLen = 0
  /\ bSib = BuildSib(U64(1))
  /\ bMask = U64(0)
  /\ bPc = "idle"
  /\ bNonce = U64(0)
  /\ bBf = {}
  /\ bI = 0
  /\ bBatch = 0
  /\ bBlinds = 0
  /\ bOut = NoCall

UtilIdle ==
  /\ uCall = [fn |-> "none"]
  /\ uOut = NoCall
  /\ uSibs = <<>>
  /\ uTraps = <<>>

ServerIdle ==
  /\ sFiles = <<>>
  /\ sIndexFiles = {}
  /\ sOut = [op |-> "idle", word |-> <<>>, res |-> Ok(<<>>)]

ClientIdle ==
  /\ hostKeyGen = FirstValidKeyGen
  /\ keyGen = FirstValidKeyGen
  /\ indexers = <<>>
  /\ pathnameKeys = <<>>
  /\ worker = IdleWorker
  /\ op = [IdleOp EXCEPT !.name = "none"]
  /\ opCount = 0
  /\ lastResult = NoCall
  /\ serverIndexes = {}
  /\ sentDocIDs = {}

\* ------------------------------------------------------------------------
\* Specification of the pathname / document-ID cipher
\* ------------------------------------------------------------------------
DocInit ==
  /\ CodecIdle /\ BuildIdle /\ ClientIdle /\ UtilIdle /\ ServerIdle
  /\ dPath \in Pathnames
  /\ dGen \in Gens
  /\ dKey \in KeyIds
  /\ dDocID = <<>>
  /\ dWhole = FALSE
  /\ dKeys = <<>>
  /\ dOut = NoCall

Encrypt ==
  /\ dOut = NoCall
  /\ dOut' = [op |-> "PathnameToDocID", res |-> PathnameToDocID(dGen, dPath, dKey)]
  /\ dDocID' = IF dOut'.res.status = "ok" THEN dOut'.res.value ELSE <<>>
  /\ dWhole' = (dOut'.res.status = "ok")
  /\ UNCHANGED <<dPath, dGen, dKey, dKeys>>
  /\ UNCHANGED <<codecVars, buildVars, clientVars, utilVars, serverVars>>

\* the document ID arrives cut short
Truncate ==
  /\ dWhole
  /\ dOut.op = "PathnameToDocID"
  /\ \E n \in 0..(Len(dDocID) - 1) :
       /\ dDocID' = SubSeq(dDocID, 1, n)
       /\ dWhole' = FALSE
  /\ UNCHANGED <<dPath, dGen, dKey, dKeys, dOut>>
  /\ UNCHANGED <<codecVars, buildVars, clientVars, utilVars, serverVars>>

Decrypt ==
  /\ dOut.op = "PathnameToDocID"
  /\ \E keys \in KeyVectors :
       /\ dKeys' = keys
       /\ dOut' = [op |-> "DocIDToPathname", res |-> DocIDToPathname(dDocID, keys)]
  /\ UNCHANGED <<dPath, dGen, dKey, dDocID, dWhole>>
  /\ UNCHANGED <<codecVars, buildVars, clientVars, utilVars, serverVars>>

ExtractKeyGen ==
  /\ dOut.op = "PathnameToDocID"
  /\ dOut' = [op |-> "GetKeyGenFromDocID", res |-> GetKeyGenFromDocID(dDocID)]
  /\ UNCHANGED <<dPath, dGen, dKey, dDocID, dWhole, dKeys>>
  /\ UNCHANGED <<codecVars, buildVars, clientVars, utilVars, serverVars>>

Pad ==
  /\ dOut = NoCall
  /\ dOut' = [op |-> "padPathname", res |-> padPathname(dPath)]
  /\ UNCHANGED <<dPath, dGen, dKey, dDocID, dWhole, dKeys>>
  /\ UNCHANGED <<codecVars, buildVars, clientVars, utilVars, serverVars>>

\* a second call whose nonce comes from a random source instead of the
\* pathname's digest
EncryptAgain_RandomNonce ==
  /\ dOut.op = "PathnameToDocID"
  /\ dWhole
  /\ \E nonce \in {Slice(SHA256(dPath), 0, docIDNonceLength), Zeros(docIDNonceLength)} :
       dOut' = [op |-> "PathnameToDocID again",
                res |-> Ok(Base64Encode(Int64LE(dGen) \o nonce
                             \o secretboxSeal(padPathname(dPath).value, nonce, dKey)))]
  /\ UNCHANGED <<dPath, dGen, dKey, dDocID, dWhole, dKeys>>
  /\ UNCHANGED <<codecVars, buildVars, clientVars, utilVars, serverVars>>

\* PathnameToDocID is called a second time with the same arguments
EncryptAgain ==
  /\ dOut.op = "PathnameToDocID"
  /\ dWhole
  /\ dOut' = [op |-> "PathnameToDocID again", res |-> PathnameToDocID(dGen, dPath, dKey)]
  /\ UNCHANGED <<dPath, dGen, dKey, dDocID, dWhole, dKeys>>
  /\ UNCHANGED <<codecVars, buildVars, clientVars, utilVars, serverVars>>

DocNext == Encrypt \/ Truncate \/ Decrypt \/ ExtractKeyGen \/ Pad \/ EncryptAgain

SpecDocID == DocInit /\ [][DocNext]_vars

\* ------------------------------------------------------------------------
\* Specification of the SecureIndex codec
\* ------------------------------------------------------------------------
U64Samples == {U64(0), U64(1), U64(127), U64(128), U64Bit(56), U64Bit(63), U64Max}
BloomFilters == SUBSET (0..MaxBit)
Hashes == {"sha256", "sha512"}

CodecInit ==
  /\ DocIdle /\ BuildIdle /\ ClientIdle /\ UtilIdle /\ ServerIdle
  /\ cIdx \in [Hash : Hashes, Nonce : U64Samples, Size : U64Samples, BloomFilter : BloomFilters]
  /\ cBytes = <<>>
  /\ cWhole = FALSE
  /\ cRecv = ZeroIndex
  /\ cOut = [op |-> "none", err |-> ""]

Marshal ==
  /\ cOut.op = "none"
  /\ cBytes' = MarshalBinary(cIdx).value
  /\ cWhole' = TRUE
  /\ cOut' = [op |-> "MarshalBinary", err |-> ""]
  /\ UNCHANGED <<cIdx, cRecv>>
  /\ UNCHANGED <<docVars, buildVars, clientVars, utilVars, serverVars>>

\* the byte string arrives cut short
CutBytes ==
  /\ cOut.op = "MarshalBinary"
  /\ cWhole
  /\ \E n \in 0..(Len(cBytes) - 1) :
       cBytes' = SubSeq(cBytes, 1, n)
  /\ cWhole' = FALSE
  /\ UNCHANGED <<cIdx, cRecv, cOut>>
  /\ UNCHANGED <<docVars, buildVars, clientVars, utilVars, serverVars>>

Unmarshal ==
  /\ cOut.op = "MarshalBinary"
  /\ LET r == UnmarshalBinary(cRecv, cBytes)
     IN /\ cOut' = [op |-> "UnmarshalBinary", err |-> r.err]
        /\ cRecv' = r.si
  /\ UNCHANGED <<cIdx, cBytes, cWhole>>
  /\ UNCHANGED <<docVars, buildVars, clientVars, utilVars, serverVars>>

\* the byte string arrives with another hash-size slot: the varint of some
\* other number, or ten bytes that are no varint at all
HashSizeSamples == {0 - 32, 0, 1, 31, 32, 33, 63, 64, 65, 128}
HashSlots ==
  {Overlay(Zeros(MaxVarintLen64), 0, PutVarint(n)) : n \in HashSizeSamples}
  \cup {[i \in 1..MaxVarintLen64 |-> 128] \o <<>>}

TamperHash ==
  /\ cOut.op = "MarshalBinary"
  /\ cWhole
  /\ \E slot \in HashSlots :
       cBytes' = Overlay(cBytes, 0, slot)
  /\ cWhole' = FALSE
  /\ UNCHANGED <<cIdx, cRecv, cOut>>
  /\ UNCHANGED <<docVars, buildVars, clientVars, utilVars, serverVars>>

CodecNext == Marshal \/ CutBytes \/ Unmarshal \/ TamperHash

SpecCodec == CodecInit /\ [][CodecNext]_vars

\* ------------------------------------------------------------------------
\* Specification of BuildSecureIndex
\* ------------------------------------------------------------------------
DocBytes == {97, 65, Space, LongRun}
Documents == SeqsUpTo(DocBytes, MaxDocLen)
BuildSizes == {U64(0), U64(1), U64(3), U64(4), U64(6)}
NonceSamples == {U64(0), U64(1), U64Max}
RandSamples == {U64(0), U64(3), U64(5), U64Max}

BuildInit ==
  /\ DocIdle /\ CodecIdle /\ ClientIdle /\ UtilIdle /\ ServerIdle
  /\ bDoc \in Documents
  /\ bFileLen \in 0..MaxFileLen
  /\ \E size \in BuildSizes : bSib = BuildSib(size)
  /\ bMask = U64(0)
  /\ bPc = "start"
  /\ bNonce = U64(0)
  /\ bBf = {}
  /\ bI = 0
  /\ bBatch = 0
  /\ bBlinds = 0
  /\ bOut = NoCall

\* the SecureIndex BuildSecureIndex returns
BuiltIndex == [BloomFilter |-> bBf, Nonce |-> bNonce, Size |-> bSib.size, Hash |-> bSib.hash]

\* RandUint64 fails: BuildSecureIndex returns the error
BuildNonceFails ==
  /\ bPc = "start"
  /\ bPc' = "done"
  /\ bOut' = [op |-> "BuildSecureIndex", res |-> Err("rand")]
  /\ UNCHANGED <<bDoc, bFileLen, bSib, bMask, bNonce, bBf, bI, bBatch, bBlinds>>
  /\ UNCHANGED <<docVars, codecVars, clientVars, utilVars, serverVars>>

\* RandUint64, buildBloomFilter and the entry to blindBloomFilter, which
\* computes the mask
BuildBloom ==
  /\ bPc = "start"
  /\ \E nonce \in NonceSamples :
       \E r \in {buildBloomFilter(bSib, nonce, bDoc)} :
          /\ bNonce' = nonce
          /\ bBf' = r.bf
          /\ IF r.crash
             THEN /\ bPc' = "done"
                  /\ bOut' = [op |-> "BuildSecureIndex", res |-> Panic("integer divide by zero")]
                  /\ bI' = 0
                  /\ bMask' = bMask
             ELSE /\ bPc' = "blind"
                  /\ bOut' = bOut
                  /\ bI' = BlindIterations(bSib, bFileLen, r.numUniqWords)
                  /\ bMask' = BuildMaskWithLeadingZeroes(GetNumLeadingZeroes(bSib.size))
  /\ UNCHANGED <<bDoc, bFileLen, bSib, bBatch, bBlinds>>
  /\ UNCHANGED <<docVars, codecVars, clientVars, utilVars, serverVars>>

\* blindBloomFilter: binary.Read fills a new batch of random numbers
BlindRead ==
  /\ bPc = "blind"
  /\ bI > 0
  /\ bBatch = 0
  /\ bBatch' = BatchLen(bI)
  /\ UNCHANGED <<bDoc, bFileLen, bSib, bMask, bPc, bNonce, bBf, bI, bBlinds, bOut>>
  /\ UNCHANGED <<docVars, codecVars, clientVars, utilVars, serverVars>>

\* blindBloomFilter: binary.Read fails; BuildSecureIndex returns the error
BlindReadFails ==
  /\ bPc = "blind"
  /\ bI > 0
  /\ bBatch = 0
  /\ bPc' = "done"
  /\ bOut' = [op |-> "BuildSecureIndex", res |-> Err("rand")]
  /\ UNCHANGED <<bDoc, bFileLen, bSib, bMask, bNonce, bBf, bI, bBatch, bBlinds>>
  /\ UNCHANGED <<docVars, codecVars, clientVars, utilVars, serverVars>>

\* blindBloomFilter: the random number randNum of the batch
BlindStepWith(randNum) ==
  /\ bPc = "blind"
  /\ bBatch > 0
  /\ \E actualNum \in {BVAnd(randNum, bMask)} :
       IF BVLess(actualNum, bSib.size)
       THEN /\ bBf' = bBf \cup {BVToNat(actualNum)}
            /\ bBlinds' = bBlinds + 1
            /\ bI' = bI - 1
            /\ bBatch' = IF bI - 1 = 0 THEN 0 ELSE bBatch - 1
       ELSE /\ bBatch' = bBatch - 1
            /\ UNCHANGED <<bBf, bI, bBlinds>>
  /\ UNCHANGED <<bDoc, bFileLen, bSib, bMask, bPc, bNonce, bOut>>
  /\ UNCHANGED <<docVars, codecVars, clientVars, utilVars, serverVars>>

\* blindBloomFilter: one random number of the batch
BlindStep == \E randNum \in RandSamples : BlindStepWith(randNum)

\* blindBloomFilter returns nil; BuildSecureIndex returns the index
BuildReturn ==
  /\ bPc = "blind"
  /\ bI <= 0
  /\ bPc' = "done"
  /\ bOut' = [op |-> "BuildSecureIndex", res |-> Ok(BuiltIndex)]
  /\ UNCHANGED <<bDoc, bFileLen, bSib, bMask, bNonce, bBf, bI, bBatch, bBlinds>>
  /\ UNCHANGED <<docVars, codecVars, clientVars, utilVars, serverVars>>

BuildNext == BuildNonceFails \/ BuildBloom \/ BlindRead \/ BlindReadFails \/ BlindStep \/ BuildReturn

SpecBuild == BuildInit /\ [][BuildNext]_vars

\* BuildSecureIndex over the documents of at most one one-letter word: the
\* calls in which blindBloomFilter does all or nearly all of the work
BlindDocuments == {<<>>, <<97>>}

BlindInit ==
  /\ DocIdle /\ CodecIdle /\ ClientIdle /\ UtilIdle /\ ServerIdle
  /\ bDoc \in BlindDocuments
  /\ bFileLen \in 0..(MaxFileLen + 1)
  /\ \E size \in BuildSizes : bSib = BuildSib(size)
  /\ bMask = U64(0)
  /\ bPc = "start"
  /\ bNonce = U64(0)
  /\ bBf = {}
  /\ bI = 0
  /\ bBatch = 0
  /\ bBlinds = 0
  /\ bOut = NoCall

SpecBlind == BlindInit /\ [][BuildNext]_vars

\* the same calls as long as they run: the call takes its next step while
\* it has one, and the random source produces every value again and again
\* (a value that can be drawn infinitely often is drawn); nothing makes
\* binary.Read fail
BlindFairness ==
  /\ WF_vars(BlindRead)
  /\ WF_vars(BuildReturn)
  /\ \A randNum \in RandSamples : SF_vars(BlindStepWith(randNum))

SpecBlindLive == BlindInit /\ [][BuildNext]_vars /\ BlindFairness

\* ------------------------------------------------------------------------
\* Specification of single calls: nextPowerOfTwo, NormalizeKeyword,
\* relPathStrict and the head of AddFile, CreateSecureIndexBuilder and
\* ComputeTrapdoors
\* ------------------------------------------------------------------------
U32(n) == BVFromNat(n, 32)
U32Bit(k) == [i \in 1..32 |-> IF i = k + 1 THEN 1 ELSE 0] \o <<>>

\* arguments of nextPowerOfTwo: the small numbers and the numbers around
\* 2^30, 2^31 and 2^32
Pow2Args ==
  {U32(n) : n \in 0..MaxPow2Arg}
  \cup {U32Bit(30), BVInc(U32Bit(30)), BVDec(U32Bit(31)), U32Bit(31), BVInc(U32Bit(31)),
        BVDec(U32(0))}

\* keywords: short strings over letters, digits and other runes, and the
\* strings "iCe-CREAm", "SHA-256" and ".,;'[]'"
KeywordRunes == {65, 97, 53, 45, 201, 233, 33503, 1637, 8551, 65533}
Keywords ==
  SeqsUpTo(KeywordRunes, MaxKeywordLen)
  \cup {<<105, 67, 101, 45, 67, 82, 69, 65, 109>>,
        <<83, 72, 65, 45, 50, 53, 54>>,
        <<46, 44, 59, 39, 91, 93, 39>>}

\* base and target paths over '/', '.' and 'a', and the shapes
\* "a/a/../../a", "a/../a/aa", "/a/../a/a" that need more bytes
BasePaths == {<<97>>, <<Slash, 97>>, <<97, Slash, 97>>}
TargetPaths ==
  SeqsUpTo({Slash, Dot, 97}, MaxTargetLen)
  \cup {<<97, Slash, 97, Slash, Dot, Dot, Slash, Dot, Dot, Slash, 97>>,
        <<97, Slash, Dot, Dot, Slash, 97, Slash, 97, 97>>,
        <<Slash, 97, Slash, Dot, Dot, Slash, 97, Slash, 97>>}

\* arguments of CreateSecureIndexBuilder and the word given to
\* ComputeTrapdoors
MasterSecrets == {<<1>>, <<2, 3>>}
SaltVectors ==
  {<<>>, <<<<1, 2>>>>, <<<<1, 2>>, <<3, 4>>>>, <<<<3, 4>>, <<1, 2>>>>,
   <<<<5, 6>>, <<5, 6>>, <<7, 8>>>>}
TrapdoorWords == {<<>>, <<97>>, <<65, 45>>}

\* HMAC-SHA256 outputs given by their leading byte and one of two tails, and
\* the bloom-filter sizes they are reduced to
MacTails == {Zeros(sha256Size - 1), [i \in 1..(sha256Size - 1) |-> 255] \o <<>>}
MacSums == {<<b>> \o tail : b \in 0..255, tail \in MacTails}
PositionSizes == {U64(2), U64(256), U64(512)}

\* index sizes whose blinding mask is taken: the small ones, both sides of
\* 2^32 and of 2^63, and the largest
MaskSizes ==
  {U64(n) : n \in 0..MaxMaskArg}
  \cup {BVDec(U64Bit(32)), U64Bit(32), BVInc(U64Bit(32)), BVDec(U64Bit(63)), U64Bit(63),
        BVInc(U64Bit(63)), U64Max}

\* nonces given to buildBloomFilter: small ones, both sides of 2^63 and the
\* largest
NonceArgs ==
  {U64(0), U64(1), U64(2), U64(255), U64(256), BVDec(U64Bit(63)), U64Bit(63),
   BVInc(U64Bit(63)), BVDec(U64Max), U64Max}

NoArgs ==
  [fn |-> "none", n |-> U32(0), word |-> <<>>, base |-> <<>>, targ |-> <<>>,
   h |-> "sha256", masterSecret |-> <<>>, salts |-> <<>>, size |-> U64(0),
   macSum |-> <<>>, nonce |-> U64(0)]

UtilCalls ==
  {[NoArgs EXCEPT !.fn = "nextPowerOfTwo", !.n = n] : n \in Pow2Args}
  \cup {[NoArgs EXCEPT !.fn = "NormalizeKeyword", !.word = w] : w \in Keywords}
  \cup {[NoArgs EXCEPT !.fn = f, !.base = b, !.targ = t] :
          f \in {"relPathStrict", "AddFile"}, b \in BasePaths, t \in TargetPaths}
  \cup {[NoArgs EXCEPT !.fn = "SecureIndexBuilder", !.h = h, !.masterSecret = ms,
                       !.salts = salts, !.size = U64(4), !.word = w] :
          h \in Hashes, ms \in MasterSecrets, salts \in SaltVectors, w \in TrapdoorWords}
  \cup {[NoArgs EXCEPT !.fn = "BitPosition", !.macSum = macSum, !.size = size] :
          macSum \in MacSums, size \in PositionSizes}
  \cup {[NoArgs EXCEPT !.fn = "NonceBytes", !.nonce = nonce] : nonce \in NonceArgs}
  \cup {[NoArgs EXCEPT !.fn = "BlindMask", !.size = size] : size \in MaskSizes}

UtilInit ==
  /\ DocIdle /\ CodecIdle /\ BuildIdle /\ ClientIdle /\ ServerIdle
  /\ uCall \in UtilCalls
  /\ uOut = NoCall
  /\ uSibs = <<>>
  /\ uTraps = <<>>

CallNextPowerOfTwo ==
  /\ uCall.fn = "nextPowerOfTwo"
  /\ uOut = NoCall
  /\ uOut' = [op |-> "nextPowerOfTwo", res |-> Ok(nextPowerOfTwo(uCall.n))]
  /\ UNCHANGED <<uCall, uSibs, uTraps>>
  /\ UNCHANGED <<docVars, codecVars, buildVars, clientVars, serverVars>>

CallNormalizeKeyword ==
  /\ uCall.fn = "NormalizeKeyword"
  /\ uOut = NoCall
  /\ uOut' = [op |-> "NormalizeKeyword", res |-> Ok(NormalizeKeyword(uCall.word))]
  /\ UNCHANGED <<uCall, uSibs, uTraps>>
  /\ UNCHANGED <<docVars, codecVars, buildVars, clientVars, serverVars>>

CallRelPathStrict ==
  /\ uCall.fn = "relPathStrict"
  /\ uOut = NoCall
  /\ uOut' = [op |-> "relPathStrict", res |-> relPathStrict(uCall.base, uCall.targ)]
  /\ UNCHANGED <<uCall, uSibs, uTraps>>
  /\ UNCHANGED <<docVars, codecVars, buildVars, clientVars, serverVars>>

\* AddFile(directory, pathname) up to the relative-path check, for a
\* directory whose absDir is uCall.base: it returns the error of
\* relPathStrict, or goes on to index the file under the relative path
AddFileRelPath ==
  /\ uCall.fn = "AddFile"
  /\ uOut = NoCall
  /\ \E r \in {relPathStrict(uCall.base, uCall.targ)} :
       uOut' = [op |-> "AddFile",
                res |-> IF r.status # "ok" THEN r
                        ELSE [status |-> "indexing", value |-> r.value]]
  /\ UNCHANGED <<uCall, uSibs, uTraps>>
  /\ UNCHANGED <<docVars, codecVars, buildVars, clientVars, serverVars>>

\* a builder that draws its own salts (GenerateSalts) instead of taking the
\* caller's
CreateBuilder_FreshSalts ==
  /\ uCall.fn = "SecureIndexBuilder"
  /\ Len(uSibs) < 2
  /\ \E salts \in {v \in SaltVectors : Len(v) = Len(uCall.salts)} :
       uSibs' = Append(uSibs, CreateSecureIndexBuilder(uCall.h, uCall.masterSecret,
                                                       salts, uCall.size))
  /\ UNCHANGED <<uCall, uOut, uTraps>>
  /\ UNCHANGED <<docVars, codecVars, buildVars, clientVars, serverVars>>

\* CreateSecureIndexBuilder(h, masterSecret, salts, size) is called
CreateBuilder ==
  /\ uCall.fn = "SecureIndexBuilder"
  /\ Len(uSibs) < 2
  /\ uSibs' = Append(uSibs, CreateSecureIndexBuilder(uCall.h, uCall.masterSecret,
                                                     uCall.salts, uCall.size))
  /\ UNCHANGED <<uCall, uOut, uTraps>>
  /\ UNCHANGED <<docVars, codecVars, buildVars, clientVars, serverVars>>

\* ComputeTrapdoors(word) is called on one of the builders
CallComputeTrapdoors ==
  /\ uCall.fn = "SecureIndexBuilder"
  /\ Len(uTraps) < MaxTrapdoorCalls
  /\ \E b \in 1..Len(uSibs) :
       uTraps' = Append(uTraps, [sib |-> b, trapdoors |-> ComputeTrapdoors(uSibs[b], uCall.word)])
  /\ UNCHANGED <<uCall, uOut, uSibs>>
  /\ UNCHANGED <<docVars, codecVars, buildVars, clientVars, serverVars>>

\* one pass of the inner loop of buildBloomFilter from mac.Sum(nil) on
CallBitPosition ==
  /\ uCall.fn = "BitPosition"
  /\ uOut = NoCall
  /\ uOut' = [op |-> "BitPosition", res |-> Ok(PositionOf(uCall.macSum, uCall.size))]
  /\ UNCHANGED <<uCall, uSibs, uTraps>>
  /\ UNCHANGED <<docVars, codecVars, buildVars, clientVars, serverVars>>

\* the message of the bit-position HMAC: big.NewInt(int64(nonce)).Bytes()
CallNonceBytes ==
  /\ uCall.fn = "NonceBytes"
  /\ uOut = NoCall
  /\ uOut' = [op |-> "NonceBytes", res |-> Ok(NonceBytes(uCall.nonce))]
  /\ UNCHANGED <<uCall, uSibs, uTraps>>
  /\ UNCHANGED <<docVars, codecVars, buildVars, clientVars, serverVars>>

\* the first statement of blindBloomFilter:
\* mask := BuildMaskWithLeadingZeroes(GetNumLeadingZeroes(sib.size))
CallBlindMask ==
  /\ uCall.fn = "BlindMask"
  /\ uOut = NoCall
  /\ \E numZeroes \in {GetNumLeadingZeroes(uCall.size)} :
       uOut' = [op |-> "BlindMask",
                res |-> Ok([numZeroes |-> numZeroes,
                            mask |-> BuildMaskWithLeadingZeroes(numZeroes)])]
  /\ UNCHANGED <<uCall, uSibs, uTraps>>
  /\ UNCHANGED <<docVars, codecVars, buildVars, clientVars, serverVars>>

UtilNext ==
  \/ CallNextPowerOfTwo \/ CallNormalizeKeyword \/ CallRelPathStrict \/ AddFileRelPath
  \/ CreateBuilder \/ CallComputeTrapdoors \/ CallBitPosition \/ CallNonceBytes
  \/ CallBlindMask

SpecUtil == UtilInit /\ [][UtilNext]_vars

\* ------------------------------------------------------------------------
\* Specification of the file server: files are added and numbered, the
\* client writes the index of each, and words are searched
\* ------------------------------------------------------------------------
ServerDocuments == {<<>>, <<97>>, <<97, Space, 98>>, <<LongRun, Space, 97>>}
ServerWords == {<<97>>, <<98>>}

\* the builder of the server's clients
ServerSib == BuildSib(ClientSize)

ServerIdleOut == [op |-> "none", word |-> <<>>, res |-> Ok(<<>>)]

ServerInit ==
  /\ DocIdle /\ CodecIdle /\ BuildIdle /\ ClientIdle /\ UtilIdle
  /\ sFiles = <<>>
  /\ sIndexFiles = {}
  /\ sOut = ServerIdleOut

\* s.numFiles
numFiles == Len(sFiles)

\* (s *Server) AddFile(content)
Server_AddFile ==
  /\ sOut.op = "none"
  /\ numFiles < MaxFiles
  /\ \E content \in ServerDocuments : sFiles' = Append(sFiles, content)
  /\ UNCHANGED <<sIndexFiles, sOut>>
  /\ UNCHANGED <<docVars, codecVars, buildVars, clientVars, utilVars>>

\* the client builds the index of file docID and hands it to
\* (s *Server) WriteIndex(si)
Server_WriteIndex ==
  /\ sOut.op = "none"
  /\ \E docID \in 0..(numFiles - 1) :
       \E bloom \in {indexerBuildBloomFilter(ServerSib, docID, sFiles[docID + 1])} :
       \E blinded \in BlindOutcomes(ServerSib,
                         BlindIterations(ServerSib, Len(sFiles[docID + 1]), bloom.numUniqWords)) :
         sIndexFiles' =
           {r \in sIndexFiles : r.DocID # docID}
           \cup {[DocID |-> docID,
                  bytes |-> indexMarshal(indexerBuildSecureIndex(ServerSib, docID,
                                                                 sFiles[docID + 1], blinded))]}
  /\ UNCHANGED <<sFiles, sOut>>
  /\ UNCHANGED <<docVars, codecVars, buildVars, clientVars, utilVars>>

\* (s *Server) readIndex(docID): a missing file reads as no bytes
Server_readIndex(docID) ==
  indexUnmarshal(IF \E r \in sIndexFiles : r.DocID = docID
                 THEN (CHOOSE r \in sIndexFiles : r.DocID = docID).bytes
                 ELSE <<>>)

\* the loop of (s *Server) SearchWord(trapdoors) from document i on, and the
\* len(trapdoors[0]) of its last statement
RECURSIVE Server_SearchWordFrom(_, _, _)
Server_SearchWordFrom(i, trapdoors, result) ==
  IF i >= numFiles
  THEN (IF trapdoors = <<>> THEN Panic("index out of range") ELSE Ok(result))
  ELSE LET found == searcherSearchSecureIndex(Server_readIndex(i), trapdoors)
       IN IF found.status # "ok" THEN found
          ELSE Server_SearchWordFrom(i + 1, trapdoors,
                 IF found.value THEN Append(result, i) ELSE result)

\* (s *Server) SearchWord(trapdoors), with the trapdoors of a word
Server_SearchWord ==
  /\ \E word \in ServerWords :
       sOut' = [op |-> "SearchWord", word |-> word,
                res |-> Server_SearchWordFrom(0, trapdoorFunc(ServerSib, word), <<>>)]
  /\ sOut' # sOut
  /\ UNCHANGED <<sFiles, sIndexFiles>>
  /\ UNCHANGED <<docVars, codecVars, buildVars, clientVars, utilVars>>

ServerNext == Server_AddFile \/ Server_WriteIndex \/ Server_SearchWord

SpecServer == ServerInit /\ [][ServerNext]_vars

\* ------------------------------------------------------------------------
\* Specification of the client: one directory, the rekey worker
\* (periodicKeyGenCheck / updateKeys), one client operation at a time, and
\* the search server the operations talk to
\* ------------------------------------------------------------------------
\* fetchMasterSecret(directory, keyGen, lenMS): the directory's persisted
\* master secret of generation keyGen
fetchMasterSecret(gen) == [i \in 1..lenMS |-> ((gen + 2) * 37 + i * 11) % 256] \o <<>>

\* copy(pathnameKey[:], masterSecret[0:32]); a [32]byte key is named by a
\* number, the digest of its 32 bytes
PathnameKeyOf(masterSecret) == Mix(0, Slice(masterSecret, 0, 32))

\* libsearch.CreateSecureIndexBuilder(sha256.New, masterSecret,
\* tlfInfo.Salts, uint64(tlfInfo.Size))
IndexerOf(masterSecret) ==
  CreateSecureIndexBuilder("sha256", masterSecret, ClientSalts, ClientSize)

\* createClientWithClient: the DirectoryInfo for a directory whose host
\* reports the key generation gen (the public one or a valid one)
createClientWithClient(gen) ==
  IF gen = PublicKeyGen
  THEN [keyGen |-> gen,
        indexers |-> <<IndexerOf(fetchMasterSecret(gen))>>,
        pathnameKeys |-> <<PathnameKeyOf(fetchMasterSecret(gen))>>]
  ELSE [keyGen |-> gen,
        indexers |-> [i \in 1..gen |->
                        IndexerOf(fetchMasterSecret(i - 1 + FirstValidKeyGen))] \o <<>>,
        pathnameKeys |-> [i \in 1..gen |->
                        PathnameKeyOf(fetchMasterSecret(i - 1 + FirstValidKeyGen))] \o <<>>]

\* (d *DirectoryInfo) getKeyIndex()
getKeyIndex ==
  IF keyGen = PublicKeyGen THEN FirstValidKeyGen - FirstValidKeyGen
  ELSE keyGen - FirstValidKeyGen

\* updateKeys holds keyGenLock for writing
writeLocked == worker.pc = "updateKeys"

\* the relative pathnames of the directory's files; each file holds one
\* one-byte word, its own name, so its size is 1
ClientPaths == {<<97>>, <<98>>}
FileContent(path) == path
FileSize(path) == Len(FileContent(path))
SearchWords == {<<65>>}
ClientNonces == {U64(1), U64(2)}
absDir == <<47, 100>>

\* filepath.Join(dirInfo.absDir, pathname)
Join(dir, pathname) == dir \o <<47>> \o pathname

\* sort.Strings
RECURSIVE LexLessEq(_, _)
LexLessEq(x, y) ==
  IF x = <<>> THEN TRUE
  ELSE IF y = <<>> THEN FALSE
  ELSE IF Head(x) # Head(y) THEN Head(x) < Head(y)
  ELSE LexLessEq(Tail(x), Tail(y))

RECURSIVE SortStrings(_)
SortStrings(strs) ==
  IF strs = <<>> THEN <<>>
  ELSE LET k == CHOOSE i \in 1..Len(strs) : \A j \in 1..Len(strs) : LexLessEq(strs[i], strs[j])
       IN <<strs[k]>> \o SortStrings(SubSeq(strs, 1, k - 1) \o SubSeq(strs, k + 1, Len(strs)))

\* the search server: the key generation a stored index is filed under
ServerKeyGen(docID) == GetKeyGenFromDocID(docID).value

\* the search server's GetKeyGens
ServerGetKeyGens == SortedSeq({ServerKeyGen(r.DocID) : r \in serverIndexes})

\* the search server's WriteIndex, RenameIndex and DeleteIndex
ServerWriteIndex(store, docID, secIndexBytes) ==
  {r \in store : r.DocID # docID} \cup {[DocID |-> docID, SecureIndex |-> secIndexBytes]}
ServerRenameIndex(store, orig, curr) ==
  IF \E r \in store : r.DocID = orig
  THEN {r \in store : r.DocID \notin {orig, curr}}
       \cup {[DocID |-> curr, SecureIndex |-> r.SecureIndex] : r \in {x \in store : x.DocID = orig}}
  ELSE store
ServerDeleteIndex(store, docID) == {r \in store : r.DocID # docID}

\* the search server's SearchWord: the stored document IDs whose index
\* answers possibly-present to the trapdoors of its key generation
ServerSearchWord(store, trapdoors) ==
  {r.DocID : r \in
     {x \in store :
        \E t \in 1..Len(trapdoors) :
          /\ trapdoors[t].KeyGen = ServerKeyGen(x.DocID)
          /\ \E u \in {UnmarshalBinary(ZeroIndex, x.SecureIndex)} :
               u.err = "" /\ SearchSecureIndex(u.si, trapdoors[t].Codeword)}}

\* the orders in which the server can return a set of document IDs
Orderings(S) ==
  {q \in SeqsUpTo(S, Cardinality(S)) :
     Len(q) = Cardinality(S) /\ \A i, j \in 1..Len(q) : i # j => q[i] # q[j]}

\* the loop of SearchWord over the returned documents: the first failing
\* DocIDToPathname ends it
RECURSIVE DecryptDocuments(_, _, _)
DecryptDocuments(documents, i, filenames) ==
  IF i > Len(documents) THEN Ok(SortStrings(filenames))
  ELSE LET r == DocIDToPathname(documents[i], pathnameKeys)
       IN IF r.status # "ok" THEN r
          ELSE DecryptDocuments(documents, i + 1, Append(filenames, Join(absDir, r.value)))

InitialGens == {PublicKeyGen} \cup (FirstValidKeyGen..(MaxHostGen - 1))

ClientInit ==
  /\ DocIdle /\ CodecIdle /\ BuildIdle /\ UtilIdle /\ ServerIdle
  /\ hostKeyGen \in InitialGens
  /\ \E d \in {createClientWithClient(hostKeyGen)} :
       /\ keyGen = d.keyGen
       /\ indexers = d.indexers
       /\ pathnameKeys = d.pathnameKeys
  /\ worker = IdleWorker
  /\ op = IdleOp
  /\ opCount = 0
  /\ lastResult = NoCall
  /\ serverIndexes = {}
  /\ sentDocIDs = {}

running == op.name # "crashed"

\* the host file system rekeys the folder
HostRekey ==
  /\ running
  /\ hostKeyGen >= FirstValidKeyGen
  /\ hostKeyGen < MaxHostGen
  /\ hostKeyGen' = hostKeyGen + 1
  /\ UNCHANGED <<dirVars, worker, op, opCount, lastResult, serverIndexes, sentDocIDs>>
  /\ UNCHANGED <<docVars, codecVars, buildVars, utilVars, serverVars>>

\* periodicKeyGenCheck finds a newer key generation and calls updateKeys,
\* which takes keyGenLock for writing
periodicKeyGenCheck ==
  /\ running
  /\ worker.pc = "sleep"
  /\ hostKeyGen > keyGen
  /\ worker' = [pc |-> "updateKeys", newKeyGen |-> hostKeyGen, currKeyGen |-> keyGen,
                gen |-> keyGen + 1, failed |-> FALSE]
  /\ UNCHANGED <<hostKeyGen, dirVars, op, opCount, lastResult, serverIndexes, sentDocIDs>>
  /\ UNCHANGED <<docVars, codecVars, buildVars, utilVars, serverVars>>

\* one iteration of updateKeys that forgets the earlier keys
updateKeys_Replace ==
  /\ running
  /\ worker.pc = "updateKeys"
  /\ worker.gen <= worker.newKeyGen
  /\ \E masterSecret \in {fetchMasterSecret(worker.gen)} :
       /\ indexers' = <<IndexerOf(masterSecret)>>
       /\ pathnameKeys' = <<PathnameKeyOf(masterSecret)>>
  /\ keyGen' = worker.gen
  /\ worker' = [worker EXCEPT !.gen = worker.gen + 1]
  /\ UNCHANGED <<hostKeyGen, op, opCount, lastResult, serverIndexes, sentDocIDs>>
  /\ UNCHANGED <<docVars, codecVars, buildVars, utilVars, serverVars>>

\* one iteration of updateKeys that appends the indexer but not the pathname
\* key
updateKeys_IndexerOnly ==
  /\ running
  /\ worker.pc = "updateKeys"
  /\ worker.gen <= worker.newKeyGen
  /\ \E masterSecret \in {fetchMasterSecret(worker.gen)} :
       indexers' = Append(indexers, IndexerOf(masterSecret))
  /\ keyGen' = worker.gen
  /\ worker' = [worker EXCEPT !.gen = worker.gen + 1]
  /\ UNCHANGED <<hostKeyGen, pathnameKeys, op, opCount, lastResult, serverIndexes, sentDocIDs>>
  /\ UNCHANGED <<docVars, codecVars, buildVars, utilVars, serverVars>>

\* one iteration of the loop of updateKeys
updateKeys ==
  /\ running
  /\ worker.pc = "updateKeys"
  /\ worker.gen <= worker.newKeyGen
  /\ \E masterSecret \in {fetchMasterSecret(worker.gen)} :
       /\ indexers' = Append(indexers, IndexerOf(masterSecret))
       /\ pathnameKeys' = Append(pathnameKeys, PathnameKeyOf(masterSecret))
  /\ keyGen' = worker.gen
  /\ worker' = [worker EXCEPT !.gen = worker.gen + 1]
  /\ UNCHANGED <<hostKeyGen, op, opCount, lastResult, serverIndexes, sentDocIDs>>
  /\ UNCHANGED <<docVars, codecVars, buildVars, utilVars, serverVars>>

\* updateKeys: fetchMasterSecret fails, updateKeys returns and unlocks
updateKeysFetchFails ==
  /\ running
  /\ worker.pc = "updateKeys"
  /\ worker.gen <= worker.newKeyGen
  /\ worker' = [worker EXCEPT !.pc = "sleep", !.failed = TRUE]
  /\ UNCHANGED <<hostKeyGen, dirVars, op, opCount, lastResult, serverIndexes, sentDocIDs>>
  /\ UNCHANGED <<docVars, codecVars, buildVars, utilVars, serverVars>>

\* updateKeys: the loop is over, updateKeys returns and unlocks
updateKeysReturn ==
  /\ running
  /\ worker.pc = "updateKeys"
  /\ worker.gen > worker.newKeyGen
  /\ worker' = [worker EXCEPT !.pc = "sleep"]
  /\ UNCHANGED <<hostKeyGen, dirVars, op, opCount, lastResult, serverIndexes, sentDocIDs>>
  /\ UNCHANGED <<docVars, codecVars, buildVars, utilVars, serverVars>>

\* AddFile(directory, pathname) is called
StartAddFile ==
  /\ op.name = "idle"
  /\ opCount < MaxOps
  /\ \E path \in ClientPaths :
       op' = [IdleOp EXCEPT !.name = "AddFile", !.pc = "getKeyIndex", !.path = path]
  /\ opCount' = opCount + 1
  /\ UNCHANGED <<hostKeyGen, dirVars, worker, lastResult, serverIndexes, sentDocIDs>>
  /\ UNCHANGED <<docVars, codecVars, buildVars, utilVars, serverVars>>

\* RenameFile(directory, orig, curr) is called
StartRenameFile ==
  /\ op.name = "idle"
  /\ opCount < MaxOps
  /\ \E orig \in ClientPaths, curr \in ClientPaths :
       /\ orig # curr
       /\ op' = [IdleOp EXCEPT !.name = "RenameFile", !.pc = "getKeyIndex",
                               !.path = orig, !.curr = curr]
  /\ opCount' = opCount + 1
  /\ UNCHANGED <<hostKeyGen, dirVars, worker, lastResult, serverIndexes, sentDocIDs>>
  /\ UNCHANGED <<docVars, codecVars, buildVars, utilVars, serverVars>>

\* DeleteFile(directory, pathname) is called
StartDeleteFile ==
  /\ op.name = "idle"
  /\ opCount < MaxOps
  /\ \E path \in ClientPaths :
       op' = [IdleOp EXCEPT !.name = "DeleteFile", !.pc = "getKeyIndex", !.path = path]
  /\ opCount' = opCount + 1
  /\ UNCHANGED <<hostKeyGen, dirVars, worker, lastResult, serverIndexes, sentDocIDs>>
  /\ UNCHANGED <<docVars, codecVars, buildVars, utilVars, serverVars>>

\* SearchWord(directory, word) is called
StartSearchWord ==
  /\ op.name = "idle"
  /\ opCount < MaxOps
  /\ \E word \in SearchWords :
       op' = [IdleOp EXCEPT !.name = "SearchWord", !.pc = "GetKeyGens", !.word = word]
  /\ opCount' = opCount + 1
  /\ UNCHANGED <<hostKeyGen, dirVars, worker, lastResult, serverIndexes, sentDocIDs>>
  /\ UNCHANGED <<docVars, codecVars, buildVars, utilVars, serverVars>>

\* AddFile, RenameFile, DeleteFile: dirInfo.getKeyIndex(), under the read lock
GetKeyIndex ==
  /\ op.name \in {"AddFile", "RenameFile", "DeleteFile"}
  /\ op.pc = "getKeyIndex"
  /\ ~writeLocked
  /\ op' = [op EXCEPT !.keyIndex = getKeyIndex, !.pc = "docID"]
  /\ UNCHANGED <<hostKeyGen, dirVars, worker, opCount, lastResult, serverIndexes, sentDocIDs>>
  /\ UNCHANGED <<docVars, codecVars, buildVars, utilVars, serverVars>>

\* AddFile, RenameFile, DeleteFile: the argument dirInfo.keyGen of
\* PathnameToDocID is read without the lock; its order against the calls
\* in the other arguments is not fixed
ReadKeyGen ==
  /\ op.name \in {"AddFile", "RenameFile", "DeleteFile"}
  /\ \/ op.pc \in {"docID", "docID2"}
     \/ op.name = "DeleteFile" /\ op.pc = "getKeyIndex"
  /\ op.gen = NoGen
  /\ op' = [op EXCEPT !.gen = keyGen]
  /\ UNCHANGED <<hostKeyGen, dirVars, worker, opCount, lastResult, serverIndexes, sentDocIDs>>
  /\ UNCHANGED <<docVars, codecVars, buildVars, utilVars, serverVars>>

\* AddFile, RenameFile, DeleteFile: dirInfo.getPathnameKey(keyIndex), under
\* the read lock
GetPathnameKey ==
  /\ op.name \in {"AddFile", "RenameFile", "DeleteFile"}
  /\ op.pc \in {"docID", "docID2"}
  /\ op.key = NoKey
  /\ ~writeLocked
  /\ op' = [op EXCEPT !.key = pathnameKeys[op.keyIndex + 1]]
  /\ UNCHANGED <<hostKeyGen, dirVars, worker, opCount, lastResult, serverIndexes, sentDocIDs>>
  /\ UNCHANGED <<docVars, codecVars, buildVars, utilVars, serverVars>>

\* AddFile: PathnameToDocID, getIndexer(keyIndex).BuildSecureIndex,
\* MarshalBinary and WriteIndex
AddFileWrite ==
  /\ op.name = "AddFile"
  /\ op.pc = "docID"
  /\ op.gen # NoGen
  /\ op.key # NoKey
  /\ ~writeLocked
  /\ \E docID \in {PathnameToDocID(op.gen, op.path, op.key)}, nonce \in ClientNonces :
       IF docID.status # "ok"
       THEN /\ lastResult' = [op |-> "AddFile", res |-> docID]
            /\ UNCHANGED <<serverIndexes, sentDocIDs>>
       ELSE \E bloom \in {buildBloomFilter(indexers[op.keyIndex + 1], nonce, FileContent(op.path))} :
            \E blinded \in BlindOutcomes(indexers[op.keyIndex + 1],
                              BlindIterations(indexers[op.keyIndex + 1], FileSize(op.path),
                                              bloom.numUniqWords)) :
              LET secIndex == [BloomFilter |-> bloom.bf \cup blinded, Nonce |-> nonce,
                               Size |-> indexers[op.keyIndex + 1].size,
                               Hash |-> indexers[op.keyIndex + 1].hash]
              IN /\ serverIndexes' = ServerWriteIndex(serverIndexes, docID.value,
                                                      MarshalBinary(secIndex).value)
                 /\ sentDocIDs' = sentDocIDs \cup
                      {[op |-> "AddFile", docID |-> docID.value, pathname |-> op.path,
                        keyIndex |-> op.keyIndex]}
                 /\ lastResult' = [op |-> "AddFile", res |-> Ok(<<>>)]
  /\ op' = IdleOp
  /\ UNCHANGED <<hostKeyGen, dirVars, worker, opCount>>
  /\ UNCHANGED <<docVars, codecVars, buildVars, utilVars, serverVars>>

\* RenameFile: PathnameToDocID of the original pathname
RenameFileOrig ==
  /\ op.name = "RenameFile"
  /\ op.pc = "docID"
  /\ op.gen # NoGen
  /\ op.key # NoKey
  /\ \E docID \in {PathnameToDocID(op.gen, op.path, op.key)} :
       IF docID.status # "ok"
       THEN /\ lastResult' = [op |-> "RenameFile", res |-> docID]
            /\ op' = IdleOp
       ELSE /\ op' = [op EXCEPT !.orig = docID.value, !.gen = NoGen, !.key = NoKey,
                                !.pc = "docID2"]
            /\ UNCHANGED lastResult
  /\ UNCHANGED <<hostKeyGen, dirVars, worker, opCount, serverIndexes, sentDocIDs>>
  /\ UNCHANGED <<docVars, codecVars, buildVars, utilVars, serverVars>>

\* RenameFile: PathnameToDocID of the current pathname and RenameIndex
RenameFileSend ==
  /\ op.name = "RenameFile"
  /\ op.pc = "docID2"
  /\ op.gen # NoGen
  /\ op.key # NoKey
  /\ \E docID \in {PathnameToDocID(op.gen, op.curr, op.key)} :
       IF docID.status # "ok"
       THEN /\ lastResult' = [op |-> "RenameFile", res |-> docID]
            /\ UNCHANGED <<serverIndexes, sentDocIDs>>
       ELSE /\ serverIndexes' = ServerRenameIndex(serverIndexes, op.orig, docID.value)
            /\ sentDocIDs' = sentDocIDs \cup
                 {[op |-> "RenameFile", docID |-> op.orig, pathname |-> op.path,
                   keyIndex |-> op.keyIndex],
                  [op |-> "RenameFile", docID |-> docID.value, pathname |-> op.curr,
                   keyIndex |-> op.keyIndex]}
            /\ lastResult' = [op |-> "RenameFile", res |-> Ok(<<>>)]
  /\ op' = IdleOp
  /\ UNCHANGED <<hostKeyGen, dirVars, worker, opCount>>
  /\ UNCHANGED <<docVars, codecVars, buildVars, utilVars, serverVars>>

\* DeleteFile: PathnameToDocID and DeleteIndex
DeleteFileSend ==
  /\ op.name = "DeleteFile"
  /\ op.pc = "docID"
  /\ op.gen # NoGen
  /\ op.key # NoKey
  /\ \E docID \in {PathnameToDocID(op.gen, op.path, op.key)} :
       IF docID.status # "ok"
       THEN /\ lastResult' = [op |-> "DeleteFile", res |-> docID]
            /\ UNCHANGED <<serverIndexes, sentDocIDs>>
       ELSE /\ serverIndexes' = ServerDeleteIndex(serverIndexes, docID.value)
            /\ sentDocIDs' = sentDocIDs \cup
                 {[op |-> "DeleteFile", docID |-> docID.value, pathname |-> op.path,
                   keyIndex |-> op.keyIndex]}
            /\ lastResult' = [op |-> "DeleteFile", res |-> Ok(<<>>)]
  /\ op' = IdleOp
  /\ UNCHANGED <<hostKeyGen, dirVars, worker, opCount>>
  /\ UNCHANGED <<docVars, codecVars, buildVars, utilVars, serverVars>>

\* SearchWord: GetKeyGens
SearchWordGetKeyGens ==
  /\ op.name = "SearchWord"
  /\ op.pc = "GetKeyGens"
  /\ op' = [op EXCEPT !.keyGens = ServerGetKeyGens, !.pc = "trapdoors"]
  /\ UNCHANGED <<hostKeyGen, dirVars, worker, opCount, lastResult, serverIndexes, sentDocIDs>>
  /\ UNCHANGED <<docVars, codecVars, buildVars, utilVars, serverVars>>

\* SearchWord: GetKeyGens, with an answer the client does not control: any
\* list of integers, among them 0, negative values, the public generation
\* and generations newer than the client knows
AnyKeyGens == {0 - 2, PublicKeyGen, 0, FirstValidKeyGen, MaxHostGen + 1}
SearchWordGetKeyGensAny ==
  /\ op.name = "SearchWord"
  /\ op.pc = "GetKeyGens"
  /\ \E keyGens \in SeqsUpTo(AnyKeyGens, MaxKeyGens) :
       op' = [op EXCEPT !.keyGens = keyGens, !.pc = "trapdoors"]
  /\ UNCHANGED <<hostKeyGen, dirVars, worker, opCount, lastResult, serverIndexes, sentDocIDs>>
  /\ UNCHANGED <<docVars, codecVars, buildVars, utilVars, serverVars>>

\* SearchWord: one iteration of the loop over keyGens, with getKeyIndex and
\* getIndexer under the read lock
SearchWordTrapdoor ==
  /\ op.name = "SearchWord"
  /\ op.pc = "trapdoors"
  /\ op.keyGens # <<>>
  /\ ~writeLocked
  /\ LET origKeyGen == Head(op.keyGens)
         gen == IF origKeyGen = PublicKeyGen THEN FirstValidKeyGen ELSE origKeyGen
     IN IF gen < 0 \/ gen - FirstValidKeyGen > getKeyIndex
        THEN /\ op' = [op EXCEPT !.keyGens = Tail(op.keyGens)]
             /\ UNCHANGED lastResult
        ELSE IF gen - FirstValidKeyGen < 0
        THEN /\ op' = [IdleOp EXCEPT !.name = "crashed"]
             /\ lastResult' = [op |-> "SearchWord", res |-> Panic("index out of range")]
        ELSE /\ op' = [op EXCEPT
                         !.keyGens = Tail(op.keyGens),
                         !.trapdoors = Append(op.trapdoors,
                            [KeyGen |-> origKeyGen,
                             Codeword |-> ComputeTrapdoors(indexers[gen - FirstValidKeyGen + 1],
                                                           op.word)])]
             /\ UNCHANGED lastResult
  /\ UNCHANGED <<hostKeyGen, dirVars, worker, opCount, serverIndexes, sentDocIDs>>
  /\ UNCHANGED <<docVars, codecVars, buildVars, utilVars, serverVars>>

\* SearchWord: the SearchWord request and its answer
SearchWordSend ==
  /\ op.name = "SearchWord"
  /\ op.pc = "trapdoors"
  /\ op.keyGens = <<>>
  /\ \E documents \in Orderings(ServerSearchWord(serverIndexes, op.trapdoors)) :
       op' = [op EXCEPT !.documents = documents, !.pc = "documents"]
  /\ UNCHANGED <<hostKeyGen, dirVars, worker, opCount, lastResult, serverIndexes, sentDocIDs>>
  /\ UNCHANGED <<docVars, codecVars, buildVars, utilVars, serverVars>>

\* SearchWord: DocIDToPathname of every returned document under the read
\* lock, then sort.Strings
SearchWordDecrypt ==
  /\ op.name = "SearchWord"
  /\ op.pc = "documents"
  /\ ~writeLocked
  /\ lastResult' = [op |-> "SearchWord", res |-> DecryptDocuments(op.documents, 1, <<>>)]
  /\ op' = IF lastResult'.res.status = "panic" THEN [IdleOp EXCEPT !.name = "crashed"]
           ELSE IdleOp
  /\ UNCHANGED <<hostKeyGen, dirVars, worker, opCount, serverIndexes, sentDocIDs>>
  /\ UNCHANGED <<docVars, codecVars, buildVars, utilVars, serverVars>>

ClientNext ==
  \/ HostRekey \/ periodicKeyGenCheck \/ updateKeys \/ updateKeysFetchFails
  \/ updateKeysReturn
  \/ StartAddFile \/ StartRenameFile \/ StartDeleteFile \/ StartSearchWord
  \/ GetKeyIndex \/ ReadKeyGen \/ GetPathnameKey
  \/ AddFileWrite \/ RenameFileOrig \/ RenameFileSend \/ DeleteFileSend
  \/ SearchWordGetKeyGens \/ SearchWordTrapdoor \/ SearchWordSend \/ SearchWordDecrypt

SpecClient == ClientInit /\ [][ClientNext]_vars

\* the rekey worker next to one caller that only deletes files
RekeyNext ==
  \/ HostRekey \/ periodicKeyGenCheck \/ updateKeys \/ updateKeysFetchFails
  \/ updateKeysReturn
  \/ StartDeleteFile \/ GetKeyIndex \/ ReadKeyGen \/ GetPathnameKey
  \/ DeleteFileSend

SpecRekey == ClientInit /\ [][RekeyNext]_vars

\* SearchWord against a server whose GetKeyGens answer is arbitrary, next to
\* the rekey worker
SearchNext ==
  \/ HostRekey \/ periodicKeyGenCheck \/ updateKeys \/ updateKeysFetchFails
  \/ updateKeysReturn
  \/ StartSearchWord \/ SearchWordGetKeyGensAny \/ SearchWordTrapdoor
  \/ SearchWordSend \/ SearchWordDecrypt

SpecSearch == ClientInit /\ [][SearchNext]_vars

\* ------------------------------------------------------------------------
\* Properties of the pathname / document-ID cipher (SpecDocID)
\* ------------------------------------------------------------------------
KeyIndexInRange(gen, keys) ==
  gen - FirstValidKeyGen >= 0 /\ gen - FirstValidKeyGen < Len(keys)

\* C3: decrypting the document ID PathnameToDocID(g, p, k) with a key vector
\* that holds k at index g - FirstValidKeyGen returns p without error, for
\* every g >= FirstValidKeyGen and every non-empty p.
C3_DocIDRoundTrip ==
  (/\ dOut.op = "DocIDToPathname"
   /\ dWhole
   /\ dGen >= FirstValidKeyGen
   /\ dPath # <<>>
   /\ KeyIndexInRange(dGen, dKeys)
   /\ dKeys[dGen - FirstValidKeyGen + 1] = dKey)
  => dOut.res = Ok(dPath)

C3_Witness ==
  /\ dOut.op = "DocIDToPathname"
  /\ dWhole
  /\ dGen = FirstValidKeyGen + 1
  /\ Len(dPath) = MaxPathLen
  /\ Len(dKeys) = 2
  /\ dKeys[2] = dKey
  /\ dKeys[1] # dKey
  /\ dOut.res = Ok(dPath)

\* next_power_of_two of the padded pathname format, as a number
NextPowerOfTwoNat(n) == BVToNat(nextPowerOfTwo(BVFromNat(n, 32)))

\* C7: padPathname(p) is the 4-byte little-endian length of p, then p, then
\* zero bytes up to next_power_of_two(len(p)) pathname bytes.
C7_PaddedFormat ==
  dOut.op = "padPathname"
  => dOut.res = Ok(Uint32LE(Len(dPath)) \o dPath
                   \o Zeros(NextPowerOfTwoNat(Len(dPath)) - Len(dPath)))

\* C9: for a well-formed document ID whose generation lies outside the key
\* vector, DocIDToPathname returns an error value.
C9_KeyNotFoundIsError ==
  (/\ dOut.op = "DocIDToPathname"
   /\ dWhole
   /\ ~KeyIndexInRange(dGen, dKeys))
  => dOut.res.status = "error"

\* C10: for a truncated document ID, DocIDToPathname and GetKeyGenFromDocID
\* return an error value.
C10_TruncatedIsError ==
  (/\ dOut.op \in {"DocIDToPathname", "GetKeyGenFromDocID"}
   /\ ~dWhole)
  => dOut.res.status = "error"

\* C11: a document ID sealed with key k1 and opened with a key vector that
\* holds a different key k2 at the ID's generation index gives the
\* invalid-document-ID error, and never the pathname.
C11_WrongKeyIsInvalid ==
  (/\ dOut.op = "DocIDToPathname"
   /\ dWhole
   /\ KeyIndexInRange(dGen, dKeys)
   /\ dKeys[dGen - FirstValidKeyGen + 1] # dKey)
  => (dOut.res = Err("invalid document ID") /\ dOut.res # Ok(dPath))

C11_Witness ==
  /\ dOut.op = "DocIDToPathname"
  /\ dWhole
  /\ dGen = FirstValidKeyGen + 1
  /\ Len(dPath) = MaxPathLen
  /\ Len(dKeys) = 2
  /\ dKeys[1] = dKey
  /\ dKeys[2] # dKey
  /\ dOut.res = Err("invalid document ID")

C12_KeyGenRead ==
  /\ dOut.op = "GetKeyGenFromDocID"
  /\ dWhole
  /\ dGen = PublicKeyGen
  /\ dOut.res = Ok(dGen)

\* ------------------------------------------------------------------------
\* Properties of the SecureIndex codec (SpecCodec)
\* ------------------------------------------------------------------------
\* C4: UnmarshalBinary(MarshalBinary(i)) succeeds and yields i's nonce, size,
\* hash identity and bloom filter, for SHA-256 and SHA-512, any nonce, any
\* size and any bloom filter including the empty one.
C4_CodecRoundTrip ==
  (cOut.op = "UnmarshalBinary" /\ cWhole)
  => (/\ cOut.err = ""
      /\ cRecv.Nonce = cIdx.Nonce
      /\ cRecv.Size = cIdx.Size
      /\ cRecv.Hash = cIdx.Hash
      /\ cRecv.BloomFilter = cIdx.BloomFilter)

C4_Witness ==
  /\ cOut.op = "UnmarshalBinary"
  /\ cWhole
  /\ cIdx.Hash = "sha512"
  /\ cIdx.Nonce = U64Max
  /\ cIdx.Size = U64Bit(63)
  /\ cIdx.BloomFilter = {}
  /\ cRecv = cIdx

\* the number the hash-size slot of the input decodes to
HashSizeField(input) == readInt(Slice(input, 0, MaxVarintLen64))

\* C16: UnmarshalBinary returns an error for every input shorter than three
\* MaxVarintLen64 slots and for every input whose hash-size field decodes to
\* a value other than 32 or 64; 32 selects SHA-256 and 64 selects SHA-512.
C16_MalformedRejected ==
  cOut.op = "UnmarshalBinary"
  => (/\ Len(cBytes) < 3 * MaxVarintLen64 => cOut.err # ""
      /\ (Len(cBytes) >= 3 * MaxVarintLen64 /\ HashSizeField(cBytes) \notin {Ok(32), Ok(64)})
         => (cOut.err # "" /\ cRecv.Hash = "nil")
      /\ (Len(cBytes) >= 3 * MaxVarintLen64 /\ HashSizeField(cBytes) = Ok(32))
         => cRecv.Hash = "sha256"
      /\ (Len(cBytes) >= 3 * MaxVarintLen64 /\ HashSizeField(cBytes) = Ok(64))
         => cRecv.Hash = "sha512")

C16_Witness ==
  /\ cOut.op = "UnmarshalBinary"
  /\ Len(cBytes) >= 3 * MaxVarintLen64
  /\ HashSizeField(cBytes) = Ok(33)
  /\ cIdx.BloomFilter # {}
  /\ cOut.err = "invalid hash function length"

C16_WitnessShort ==
  /\ cOut.op = "UnmarshalBinary"
  /\ Len(cBytes) = 3 * MaxVarintLen64 - 1
  /\ cOut.err = "insufficient binary length"

\* ------------------------------------------------------------------------
\* Properties of BuildSecureIndex (SpecBuild)
\* ------------------------------------------------------------------------
\* query keywords: short words and the document's own tokens
QueryBytes == {97, 65, 45}
Queries == SeqsUpTo(QueryBytes, 2)

\* searching the index si with ComputeTrapdoors(q) answers possibly-present
Finds(sib, si, q) ==
  LET trapdoors == ComputeTrapdoors(sib, q)
  IN ~BVIsZero(sib.size) /\ \A i \in 1..Len(trapdoors) : BitPosition(sib, trapdoors[i], si.Nonce) \in si.BloomFilter

\* C1: the index returned by BuildSecureIndex(d, fileLen) has, for every
\* whitespace-delimited token t of d and every query keyword q with
\* NormalizeKeyword(q) = NormalizeKeyword(t), all r bits of q's trapdoors set.
C1_NoFalseNegatives ==
  (bPc = "done" /\ bOut.res.status = "ok")
  => LET tokens == ScanWords(bDoc)
     IN \A k \in 1..Len(tokens) :
          \A q \in Queries \cup {tokens[k]} :
            NormalizeKeyword(q) = NormalizeKeyword(tokens[k])
            => Finds(bSib, bOut.res.value, q)

\* the document cannot be read to its end: the scanner gives up on a token
ReadFails(doc) == \E k \in 1..Len(ScanWords(doc)) : TooLong(ScanWords(doc)[k])

\* C13: when reading the document fails part-way through the scan,
\* BuildSecureIndex returns an error, not an index built from the tokens
\* read before the failure.
C13_BuildFailureSurfaced ==
  (bPc = "done" /\ ReadFails(bDoc) /\ ~BVIsZero(bSib.size))
  => bOut.res.status = "error"

\* u: the number of distinct normalized tokens of the document
NumUniqTokens(doc) ==
  Cardinality({NormalizeKeyword(ScanWords(doc)[k]) : k \in 1..Len(ScanWords(doc))})

\* max(0, (fileLen - u) * r)
BlindingAmount(doc, fileLen, r) ==
  IF fileLen - NumUniqTokens(doc) < 0 THEN 0 ELSE (fileLen - NumUniqTokens(doc)) * r

\* C14: a BuildSecureIndex call that returns an index has made exactly
\* max(0, (fileLen - u) * r) blinding SetBit calls, each at an index in
\* [0, m); with fileLen - u < 0 it makes none and returns without error.
C14_BlindingAmount ==
  /\ (bPc = "done" /\ bOut.res.status = "ok")
     => (/\ bBlinds = BlindingAmount(bDoc, bFileLen, Len(bSib.keys))
         /\ \A b \in bBf : b >= 0 /\ b < BVToNat(bSib.size))
  /\ (bPc = "done" /\ bFileLen - NumUniqTokens(bDoc) < 0 /\ ~BVIsZero(bSib.size)
      /\ bOut.res # Err("rand"))
     => (bOut.res.status = "ok" /\ bBlinds = 0)

\* the same statement over the documents the scanner reads to their end
C14_BlindingAmountWhenRead ==
  ReadFails(bDoc) \/ C14_BlindingAmount

C14_BlindingReached ==
  /\ bPc = "done"
  /\ bOut.res.status = "ok"
  /\ ~ReadFails(bDoc)
  /\ NumUniqTokens(bDoc) = 0
  /\ bFileLen = MaxFileLen
  /\ bBlinds = MaxFileLen * Len(bSib.keys)

\* the mask blindBloomFilter applies to every random number
BlindMask(sib) == BuildMaskWithLeadingZeroes(GetNumLeadingZeroes(sib.size))

\* a 64-bit random number r with r & mask = v exists; when one exists there
\* are 2^z of them, z the number of zero bits of the mask
Producible(v, mask) == BVAnd(v, mask) = v

\* C15: for every m >= 1 the mask-and-reject step accepts no value >= m, and
\* every v in [0, m) is the masked value of the same number of 64-bit
\* random inputs.
C15_BlindingUniform ==
  (bPc \in {"blind", "done"} /\ ~BVIsZero(bSib.size))
  => (/\ \A v \in 0..(BVToNat(bSib.size) - 1) : Producible(U64(v), BlindMask(bSib))
      /\ \A r \in RandSamples :
           LET actualNum == BVAnd(r, BlindMask(bSib))
           IN BVLess(actualNum, bSib.size) <=> (BVFits(actualNum) /\ BVToNat(actualNum) < BVToNat(bSib.size))
      /\ (bBlinds > 0 => \A b \in bBf : b < BVToNat(bSib.size)))

C15_Witness ==
  /\ bPc = "done"
  /\ bOut.res.status = "ok"
  /\ bSib.size = U64(3)
  /\ bDoc = <<>>
  /\ bBlinds = 2
  /\ bBf = {0, 1}

\* ------------------------------------------------------------------------
\* Properties of single calls (SpecUtil)
\* ------------------------------------------------------------------------
\* x is a power of two: exactly one bit is set
IsPowerOfTwo(x) == Cardinality({i \in 1..Len(x) : x[i] = 1}) = 1

\* C17's statement about one argument n and the result r
NextPowerOfTwoClaim(n, r) ==
  /\ IsPowerOfTwo(r)
  /\ r[1] = 0
  /\ IsPowerOfTwo(n) => BVLess(n, r)
  /\ ~IsPowerOfTwo(n) => (~BVLess(r, n) /\ BVLess(BVShr(r, 1), n))

\* C17 as stated: for every 32-bit unsigned n, nextPowerOfTwo(n) is in
\* {2, 4, 8, ...}, strictly greater than n when n is a power of two and the
\* smallest power of two >= n otherwise.
C17_NextPowerOfTwoEvery ==
  uOut.op = "nextPowerOfTwo" => NextPowerOfTwoClaim(uCall.n, uOut.res.value)

\* C17, amended: the same for every n with 1 <= n < 2^31.
C17_NextPowerOfTwo ==
  (uOut.op = "nextPowerOfTwo" /\ ~BVIsZero(uCall.n) /\ uCall.n[32] = 0)
  => NextPowerOfTwoClaim(uCall.n, uOut.res.value)

C17_Witness ==
  /\ uOut.op = "nextPowerOfTwo"
  /\ uCall.n = U32(17)
  /\ uOut.res = Ok(U32(32))

C17_WitnessLarge ==
  /\ uOut.op = "nextPowerOfTwo"
  /\ uCall.n = U32Bit(30)
  /\ uOut.res = Ok(U32Bit(31))

\* the rune is a Unicode letter or digit
IsLetterOrDigit(c) == IsLetter(c) \/ IsDigit(c)

\* C18: NormalizeKeyword(s) is the subsequence of the letters and digits of
\* s, in their order, each in its lowercase form.
C18_NormalizeKeyword ==
  uOut.op = "NormalizeKeyword"
  => LET kept == SelectSeq(uCall.word, IsLetterOrDigit)
     IN /\ Len(uOut.res.value) = Len(kept)
        /\ \A i \in 1..Len(kept) : uOut.res.value[i] = ToLower(kept[i])
        /\ (uCall.word = <<105, 67, 101, 45, 67, 82, 69, 65, 109>>
            => uOut.res.value = <<105, 99, 101, 99, 114, 101, 97, 109>>)
        /\ (uCall.word = <<83, 72, 65, 45, 50, 53, 54>>
            => uOut.res.value = <<115, 104, 97, 50, 53, 54>>)
        /\ (uCall.word = <<46, 44, 59, 39, 91, 93, 39>> => uOut.res.value = <<>>)

C18_Witness ==
  /\ uOut.op = "NormalizeKeyword"
  /\ uCall.word = <<83, 72, 65, 45, 50, 53, 54>>
  /\ uOut.res = Ok(<<115, 104, 97, 50, 53, 54>>)

\* the target, with every ".." resolved, lies strictly beneath the base:
\* the base's components are a proper prefix of the target's
StrictlyBeneath(base, targ) ==
  LET b == Clean(base)
      t == Clean(targ)
  IN /\ IsAbs(base) = IsAbs(targ)
     /\ \A i \in 1..Len(t) : t[i] # DotDot
     /\ \A i \in 1..Len(b) : b[i] # DotDot
     /\ Len(b) < Len(t)
     /\ \A i \in 1..Len(b) : t[i] = b[i]

\* C19: relPathStrict(base, target) returns the target's path relative to
\* the base when the target lies strictly beneath the base and an error
\* otherwise; AddFile returns that error and indexes nothing.
C19_RelPathStrict ==
  /\ uOut.op = "relPathStrict"
     => IF StrictlyBeneath(uCall.base, uCall.targ)
        THEN /\ uOut.res.status = "ok"
             /\ Clean(uCall.base) \o Split(uOut.res.value) = Clean(uCall.targ)
        ELSE uOut.res.status = "error"
  /\ (uOut.op = "AddFile" /\ ~StrictlyBeneath(uCall.base, uCall.targ))
     => uOut.res.status = "error"
  /\ (uOut.op = "relPathStrict" /\ uCall.base = <<97>> /\ uCall.targ = <<97, 97, Slash, 97>>)
     => uOut.res.status = "error"

C19_Witness ==
  /\ uOut.op = "AddFile"
  /\ uCall.base = <<97>>
  /\ uCall.targ = <<97, 97, Slash, 97>>
  /\ uOut.res = Err("target path not within base path")

C19_WitnessBeneath ==
  /\ uOut.op = "relPathStrict"
  /\ uCall.base = <<97>>
  /\ uCall.targ = <<97, Slash, Dot, Dot, Slash, 97, Slash, 97, 97>>
  /\ uOut.res = Ok(<<97, 97>>)

KeyIndexOfGen(gen) == IF gen = PublicKeyGen THEN 0 ELSE gen - FirstValidKeyGen

\* C2: under every interleaving with updateKeys, the key generation written
\* into each document ID sent to the server is the generation of the
\* pathname key that sealed it.
C2_TagMatchesSealingKey ==
  \A s \in sentDocIDs :
    KeyIndexOfGen(GetKeyGenFromDocID(s.docID).value) = s.keyIndex

\* C5: a file added by AddFile under a generation g >= FirstValidKeyGen stays
\* searchable after later rekeys: its document ID decrypts to its pathname
\* with the client's pathname keys, and a SearchWord whose server lists g
\* sends the trapdoors of generation g's indexer.
C5_OlderDocsSearchable ==
  hostKeyGen # PublicKeyGen
  => \A s \in sentDocIDs :
       s.op = "AddFile"
       => /\ DocIDToPathname(s.docID, pathnameKeys) = Ok(s.pathname)
          /\ (/\ op.name = "SearchWord"
              /\ op.pc = "documents"
              /\ \E r \in serverIndexes :
                   ServerKeyGen(r.DocID) = s.keyIndex + FirstValidKeyGen)
             => \E t \in 1..Len(op.trapdoors) :
                  /\ op.trapdoors[t].KeyGen = s.keyIndex + FirstValidKeyGen
                  /\ op.trapdoors[t].Codeword =
                       ComputeTrapdoors(
                         IndexerOf(fetchMasterSecret(s.keyIndex + FirstValidKeyGen)), op.word)

IsPrefix(a, b) == Len(a) <= Len(b) /\ SubSeq(b, 1, Len(a)) = a

\* C6: every step of updateKeys, one that stops early included, keeps every
\* existing entry of indexers and pathnameKeys at its position, shortens
\* neither vector, and does not decrease keyGen.
C6_RekeyAppendOnly ==
  [][/\ IsPrefix(indexers, indexers')
     /\ IsPrefix(pathnameKeys, pathnameKeys')
     /\ keyGen' >= keyGen]_vars

\* updateKeys appended one generation and then stopped early
C6_Witness ==
  /\ worker.pc = "sleep"
  /\ worker.failed
  /\ worker.newKeyGen = worker.currKeyGen + 2
  /\ keyGen = worker.currKeyGen + 1
  /\ Len(indexers) = keyGen
  /\ Len(pathnameKeys) = keyGen
  /\ pathnameKeys[keyGen] = PathnameKeyOf(fetchMasterSecret(keyGen))

\* C8: a document ID the client created for a public-generation directory
\* decrypts back to its pathname with that client's key vector.
C8_PublicDocIDDecrypts ==
  hostKeyGen = PublicKeyGen
  => \A s \in sentDocIDs :
       DocIDToPathname(s.docID, pathnameKeys) = Ok(s.pathname)

\* ------------------------------------------------------------------------
\* Properties of the file server (SpecServer)
\* ------------------------------------------------------------------------
\* every file added has had its index written
AllIndexesWritten == \A i \in 0..(numFiles - 1) : \E r \in sIndexFiles : r.DocID = i

\* every trapdoor of the word has its bit set in the stored index of file i
TrapdoorBitsSet(i, word) ==
  \A k \in 1..Len(ServerSib.keys) :
    indexerBitPosition(ServerSib.hash, ServerSib.size, trapdoorFunc(ServerSib, word)[k], i)
      \in Server_readIndex(i).BloomFilter

\* the document holds the word as one of its whitespace-separated tokens
ContainsWord(document, word) ==
  \E k \in 1..Len(ScanWords(document)) : ScanWords(document)[k] = word

\* the IDs a SearchWord answer lists
Listed(res) == {res.value[k] : k \in 1..Len(res.value)}

\* SearchWord answers with the IDs, in strictly increasing order, of exactly
\* the files whose stored index has every trapdoor's bit set
C21_MatchingIndexesInOrder ==
  (sOut.op = "SearchWord" /\ AllIndexesWritten) =>
    /\ sOut.res.status = "ok"
    /\ \A a, b \in 1..Len(sOut.res.value) : a < b => sOut.res.value[a] < sOut.res.value[b]
    /\ Listed(sOut.res) = {i \in 0..(numFiles - 1) : TrapdoorBitsSet(i, sOut.word)}

\* C21: after files 0..n-1 have each been added and had their index written,
\* SearchWord returns, in strictly increasing order, exactly the IDs below
\* numFiles whose stored index has every trapdoor's bit set, and every
\* document that contains the word is among them
C21_ServerSearchWord ==
  /\ C21_MatchingIndexesInOrder
  /\ (sOut.op = "SearchWord" /\ AllIndexesWritten /\ sOut.res.status = "ok") =>
       \A i \in 0..(numFiles - 1) :
         ContainsWord(sFiles[i + 1], sOut.word) => i \in Listed(sOut.res)

\* a search over two indexed files that lists both
C21_BothListed ==
  /\ sOut.op = "SearchWord"
  /\ AllIndexesWritten
  /\ sOut.res = Ok(<<0, 1>>)

\* ------------------------------------------------------------------------
\* Properties of the client's delete and rename (SpecClient)
\* ------------------------------------------------------------------------
\* the document IDs under which AddFile wrote an index for the pathname that
\* the server still stores
StoredFor(pathname) ==
  {a.docID : a \in {x \in sentDocIDs :
                      /\ x.op = "AddFile"
                      /\ x.pathname = pathname
                      /\ \E r \in serverIndexes : r.DocID = x.docID}}

\* the step in which DeleteFile sends DeleteIndex, and the one in which
\* RenameFile sends RenameIndex
DeleteIndexSent ==
  /\ op.name = "DeleteFile" /\ op.pc = "docID" /\ op.gen # NoGen /\ op.key # NoKey
  /\ op' = IdleOp
  /\ lastResult'.res.status = "ok"
RenameIndexSent ==
  /\ op.name = "RenameFile" /\ op.pc = "docID2" /\ op.gen # NoGen /\ op.key # NoKey
  /\ op' = IdleOp
  /\ lastResult'.res.status = "ok"

\* C23: for every pathname added by AddFile and not yet deleted, and after
\* any rekeys in between, DeleteFile sends DeleteIndex with exactly the
\* document ID under which AddFile wrote the index, and RenameFile sends
\* that document ID as Orig
C23_DeleteAddressesStored ==
  [][/\ DeleteIndexSent =>
          \A d \in StoredFor(op.path) : PathnameToDocID(op.gen, op.path, op.key).value = d
     /\ RenameIndexSent => \A d \in StoredFor(op.path) : op.orig = d]_vars

\* the same, for the indexes written under the generation and key that the
\* delete or rename uses
C23_SameGeneration ==
  [][/\ DeleteIndexSent =>
          \A a \in sentDocIDs :
            (/\ a.op = "AddFile" /\ a.pathname = op.path /\ a.keyIndex = op.keyIndex
             /\ GetKeyGenFromDocID(a.docID).value = op.gen
             /\ op.key = pathnameKeys[op.keyIndex + 1])
            => PathnameToDocID(op.gen, op.path, op.key).value = a.docID
     /\ RenameIndexSent =>
          \A a \in sentDocIDs :
            (/\ a.op = "AddFile" /\ a.pathname = op.path
             /\ GetKeyGenFromDocID(a.docID).value = GetKeyGenFromDocID(op.orig).value
             /\ DocIDToPathname(a.docID, pathnameKeys).status = "ok"
             /\ DocIDToPathname(op.orig, pathnameKeys).status = "ok")
            => op.orig = a.docID]_vars

\* a DeleteFile of an added pathname, made with the key of its own
\* generation, that has left the index of the pathname on the server
C23_StaleIndexLeft ==
  /\ lastResult = [op |-> "DeleteFile", res |-> Ok(<<>>)]
  /\ \E a \in sentDocIDs, d \in sentDocIDs :
       /\ a.op = "AddFile" /\ d.op = "DeleteFile" /\ a.pathname = d.pathname
       /\ a.docID # d.docID
       /\ GetKeyGenFromDocID(d.docID).value - FirstValidKeyGen = d.keyIndex
       /\ GetKeyGenFromDocID(a.docID).value - FirstValidKeyGen = a.keyIndex
       /\ \E r \in serverIndexes : r.DocID = a.docID
       /\ Cardinality(sentDocIDs) = 2

\* ------------------------------------------------------------------------
\* Properties of the directory's key vectors (SpecRekey)
\* ------------------------------------------------------------------------
\* the key generation whose master secret entry i of the vectors comes from
GenOfEntry(i) == IF keyGen = PublicKeyGen THEN PublicKeyGen ELSE FirstValidKeyGen + i

\* the indexer and the pathname key derived from the master secret of each
\* key generation
KeysOfGen ==
  [gen \in {PublicKeyGen} \cup (FirstValidKeyGen..MaxHostGen) |->
     [indexer |-> IndexerOf(fetchMasterSecret(gen)),
      pathnameKey |-> PathnameKeyOf(fetchMasterSecret(gen))]]

C24_WitnessPublic == keyGen = PublicKeyGen /\ Len(indexers) = 1 /\ opCount > 0

\* ------------------------------------------------------------------------
\* Properties of SearchWord's loop over the key generations (SpecSearch)
\* ------------------------------------------------------------------------
\* C25: for every list of key generations GetKeyGens may return, SearchWord
\* skips a generation or maps it to an index inside the indexer vector, and
\* the call ends with a result or an error, never with a crash
C25_SearchWordNeverCrashes ==
  ~(lastResult.op = "SearchWord" /\ lastResult.res.status = "panic")

\* every generation other than 0 is skipped or mapped into range
C25_NonZeroInRange ==
  [][(/\ op.name = "SearchWord"
      /\ op.pc = "trapdoors"
      /\ op.keyGens # <<>>
      /\ Head(op.keyGens) # 0) => op'.name # "crashed"]_vars

\* a SearchWord call that met a newer, a negative and the public generation
\* and returned
C25_ForeignSkipped ==
  /\ lastResult.op = "SearchWord"
  /\ lastResult.res.status = "ok"
  /\ op.name = "idle"

\* ------------------------------------------------------------------------
\* Properties of the codeword reduction (SpecUtil)
\* ------------------------------------------------------------------------
\* the number of leading bytes b at which binary.Uvarint stops (it reads one
\* byte, so the rest of the output does not matter) and which are reduced
\* to position p; each such byte stands for 256^(sha256Size - 1) outputs
LeadingByteShare(size, p) ==
  Cardinality({b \in 0..255 :
                 \A tail \in MacTails : /\ Uvarint(<<b>> \o tail).n = 1
                                        /\ PositionOf(<<b>> \o tail, size) = p})

\* C26: for a size m that is a power of two, every position in [0, m) has
\* the same number of HMAC-output preimages, that is 256^sha256Size / m of
\* them; counted in units of 256^(sha256Size - 1) outputs, no position has
\* more than 256 / m
C26_UniformPositions ==
  uOut.op = "BitPosition" =>
    LeadingByteShare(uCall.size, uOut.res.value) * BVToNat(uCall.size) <= 256

\* a position below 128 of a filter of 512 bits, which the outputs that
\* start with that byte alone over-fill
C26_OverfullPosition ==
  /\ uOut.op = "BitPosition"
  /\ uCall.size = U64(512)
  /\ uOut.res.value < 128
  /\ LeadingByteShare(uCall.size, uOut.res.value) >= 1

\* ------------------------------------------------------------------------
\* Properties of the nonce bytes (SpecUtil)
\* ------------------------------------------------------------------------
\* the shortest big-endian byte string of an unsigned 64-bit number
MinimalBigEndian(x) == StripLeadingZeros([k \in 1..8 |-> BVByteAt(x, 8 - k)] \o <<>>)

\* C27: the byte string mixed into each bit-position HMAC is the minimal
\* big-endian encoding of the unsigned 64-bit nonce, for every nonce in
\* [0, 2^64)
C27_NonceEncoding ==
  uOut.op = "NonceBytes" => uOut.res.value = MinimalBigEndian(uCall.nonce)

\* C27, consequence: two different nonces give different HMAC inputs
C27_NonceInjective ==
  uOut.op = "NonceBytes" =>
    \A other \in NonceArgs : other # uCall.nonce => NonceBytes(other) # uOut.res.value

\* below 2^63 the bytes are the minimal big-endian encoding
C27_BelowSignBit ==
  (uOut.op = "NonceBytes" /\ uCall.nonce[64] = 0) =>
    uOut.res.value = MinimalBigEndian(uCall.nonce)

\* the largest nonce, whose bytes are those of nonce 1
C27_LargestNonce ==
  /\ uOut.op = "NonceBytes"
  /\ uCall.nonce = U64Max
  /\ uOut.res.value = <<1>>

\* ------------------------------------------------------------------------
\* Properties of UnmarshalBinary's effect on its receiver (SpecCodec)
\* ------------------------------------------------------------------------
\* an UnmarshalBinary call that returns an error
UnmarshalFails == cOut.op = "MarshalBinary" /\ cOut'.op = "UnmarshalBinary" /\ cOut'.err # ""

\* C29: whenever UnmarshalBinary returns an error, the receiver's Hash,
\* Nonce, Size and BloomFilter are what they were before the call
C29_UnmarshalAllOrNothing == [][UnmarshalFails => cRecv' = cRecv]_vars

\* the errors of the length check and of the hash-size field leave the
\* receiver alone
C29_HeaderErrorsKeepReceiver ==
  [][(UnmarshalFails /\ (Len(cBytes) < 3 * MaxVarintLen64
                         \/ HashSizeField(cBytes).status # "ok"
                         \/ HashSizeField(cBytes).value \notin {sha256Size, sha512Size}))
       => cRecv' = cRecv]_vars

\* a failed call that left its receiver with the input's hash, nonce and
\* size and a nil bloom filter
C29_HalfWritten ==
  /\ cOut.op = "UnmarshalBinary"
  /\ cOut.err # ""
  /\ cRecv.Hash # "nil"
  /\ cRecv.BloomFilter = NilBitArray

\* ------------------------------------------------------------------------
\* Properties of the blinding mask (SpecUtil)
\* ------------------------------------------------------------------------
\* the number of bits of x up to its highest 1 bit (0 for x = 0), that is
\* floor(log2 x) + 1 for x >= 1
BitLen(x) ==
  IF BVIsZero(x) THEN 0
  ELSE CHOOSE k \in 1..Len(x) : x[k] = 1 /\ \A j \in (k + 1)..Len(x) : x[j] = 0
\* ceil(log2 m) for m >= 1
CeilLog2(m) == BitLen(BVDec(m))
\* (1 << k) - 1 as a 64-bit value
LowOnes(k) == [i \in 1..64 |-> IF i <= k THEN 1 ELSE 0] \o <<>>

\* C30 as stated: for every m >= 1 the mask is (1 << ceil(log2 m)) - 1
C30_MaskIsCeilLog2 ==
  (uOut.op = "BlindMask" /\ ~BVIsZero(uCall.size)) =>
    uOut.res.value.mask = LowOnes(CeilLog2(uCall.size))

\* C30, amended: GetNumLeadingZeroes(x) is the number of leading zero bits
\* of x (64 for x = 0), BuildMaskWithLeadingZeroes(z) has its top z bits 0
\* and the rest 1, and for every m >= 1 the mask is
\* (1 << (floor(log2 m) + 1)) - 1, the smallest 2^k - 1 that is >= m
C30_MaskIsBitLength ==
  uOut.op = "BlindMask" =>
    /\ uOut.res.value.numZeroes = 64 - BitLen(uCall.size)
    /\ uOut.res.value.mask = LowOnes(64 - uOut.res.value.numZeroes)
    /\ ~BVIsZero(uCall.size) =>
         /\ uOut.res.value.mask = LowOnes(BitLen(uCall.size))
         /\ ~BVLess(uOut.res.value.mask, uCall.size)
         /\ BVLess(BVShr(uOut.res.value.mask, 1), uCall.size)

\* the mask of the size 4, a power of two: 7
C30_Witness ==
  /\ uOut.op = "BlindMask"
  /\ uCall.size = U64(4)
  /\ uOut.res.value.mask = U64(7)

\* the mask of a size that is no power of two, where both formulas agree
C30_WitnessAgree ==
  /\ uOut.op = "BlindMask"
  /\ uCall.size = U64(5)
  /\ uOut.res.value.mask = LowOnes(CeilLog2(uCall.size))

\* ------------------------------------------------------------------------
\* Termination of BuildSecureIndex (SpecBlindLive)
\* ------------------------------------------------------------------------
\* C28: for every index size, every document and every fileLen, the call
\* returns an index or an error after finitely many steps, given a random
\* source that eventually produces every value
C28_BuildTerminates ==
  (bPc = "blind") ~> (bPc = "done" /\ bOut.res.status \in {"ok", "error"})

\* in particular the blinding loop ends: its remaining count reaches 0 or
\* binary.Read fails
C28_BlindingEnds == (bPc = "blind") ~> (bI <= 0 \/ bPc = "done")

\* for every size m >= 1 the call returns an index or an error
C28_PositiveSizeTerminates ==
  (bPc = "blind" /\ ~BVIsZero(bSib.size))
    ~> (bPc = "done" /\ bOut.res.status \in {"ok", "error"})

\* a blinding loop over an index of size 0 that has used up a batch without
\* setting a bit
C28_EmptyBatchAtSizeZero ==
  /\ bPc = "blind"
  /\ BVIsZero(bSib.size)
  /\ bI > 0
  /\ bBatch = 0
  /\ bBlinds = 0

====
